---- MODULE Spec2Model ----
(***************************************************************************)
(* State-machine model of the SpoonOS tool execution agent                 *)
(* (src/spoonOS/agent.py): the ToolRegistry, SpoonOSAgent.initialize and   *)
(* the per-category registration, SpoonOSAgent.execute_tool with its       *)
(* timeout-bounded invocation, execute_batch and health_check; and of the  *)
(* SpoonOSIntegration layer (src/userAgent/spoonos_integration.py), which  *)
(* routes an intent to a tool, adapts its parameters and answers with a    *)
(* fallback response when the agent is not connected.                      *)
(*                                                                         *)
(* Conventions.  A Python Optional[T] is a sequence of length at most one: *)
(* None is << >> and a present value x is <<x>>.  A Python dict is a pair  *)
(* of its key order (insertion order) and its key -> value function.       *)
(* (The registry's dicts; a dict whose key order nothing reads, such as an *)
(* intent's parameters, is its key -> value function alone.)               *)
(* A time in seconds is an integer number of tenths of a second.           *)
(* An emoji of a message is written as its short name between colons, and  *)
(* the arrow of the mock swap text as "->".                                *)
(***************************************************************************)
EXTENDS Integers, Sequences, FiniteSets, TLC

VARIABLES
    registry,       \* SpoonOSAgent.registry : the ToolRegistry
    initialized,    \* SpoonOSAgent._initialized
    constructed,    \* how many tool objects the providers have constructed
    calls,          \* the frame of each execute_tool call
    results,        \* the ToolExecutionResults each call has handed back
    regHist,        \* history: per name, the register_tool calls made for it
    hist,           \* history: the initialize and direct register_tool calls
    health,         \* what the latest health_check call returned
    batch,          \* the frame of the execute_batch call
    integration,    \* the SpoonOSIntegration object (and SPOONOS_AVAILABLE)
    sends,          \* the frame of the send_intent call
    user,           \* the UserAgent's flags and its process's environment
    sessions,       \* UserAgent.sessions : session id -> list of messages
    queries         \* the frame of each process_query call

vars == <<registry, initialized, constructed, calls, results, regHist, hist,
          health, batch, integration, sends, user, sessions, queries>>

\* The state of the UserAgent and its process_query calls.
userVars == <<user, sessions, queries>>

\* The state outside the SpoonOSAgent and its execute_tool calls.
layerVars == <<health, batch, integration, sends>>

(***************************************************************************)
(* Bounds of the model.                                                    *)
(***************************************************************************)
MaxOps == 2     \* initialize runs and direct register_tool calls under Spec
MaxSetup == 2   \* the same, under ExecSpec, before and around the execute_tool call
MaxBatch == 2   \* commands in an execute_batch call
MaxConnect == 2 \* SpoonOSIntegration.initialize calls
MaxQueries == 2 \* process_query calls, which may overlap

None == << >>
Some(x) == <<x>>

Range(s) == {s[i] : i \in 1..Len(s)}
Min(a, b) == IF a < b THEN a ELSE b

(***************************************************************************)
(* ToolCategory, in the enum's definition order (the order `for cat in     *)
(* ToolCategory` iterates in).                                             *)
(***************************************************************************)
ToolCategory ==
    <<"crypto_data", "crypto_powerdata", "crypto_evm", "crypto_neo", "github">>

Categories == Range(ToolCategory)

(***************************************************************************)
(* The tool names each _register_*_tools registers, in registration order. *)
(***************************************************************************)
CryptoDataTools ==
    <<"get_token_price", "get_24h_stats", "get_kline_data",
      "price_threshold_alert", "lp_range_check", "sudden_price_increase",
      "lending_rate_monitor">>

CryptoPowerDataTools ==
    <<"crypto_powerdata_cex", "crypto_powerdata_dex", "crypto_powerdata_indicators">>

CryptoEvmTools ==
    <<"evm_transfer", "evm_erc20_transfer", "evm_balance", "evm_swap",
      "evm_swap_quote", "evm_bridge">>

CryptoNeoTools == <<"neo_address_info", "neo_validate_address">>

GithubTools == <<"github_issues", "github_pull_requests", "github_commits">>

CategoryTools(category) ==
    CASE category = "crypto_data" -> CryptoDataTools
      [] category = "crypto_powerdata" -> CryptoPowerDataTools
      [] category = "crypto_evm" -> CryptoEvmTools
      [] category = "crypto_neo" -> CryptoNeoTools
      [] category = "github" -> GithubTools

(***************************************************************************)
(* Tool instances.  An object is its class and its identity; None may be   *)
(* registered like any other object.                                       *)
(***************************************************************************)
NoneInstance == [cls |-> "NoneType", id |-> 0]
UserInstances == {[cls |-> "UserTool", id |-> 0], NoneInstance}
Constructed(name, serial) == [cls |-> name, id |-> serial]

\* Python truthiness of a registered object (`if not tool`).
Truthy(inst) == inst # NoneInstance

(***************************************************************************)
(* ToolRegistry                                                            *)
(***************************************************************************)
\* ToolRegistry.__init__
NewRegistry ==
    [keys |-> << >>,
     tools |-> << >>,
     categories |-> [c \in Categories |-> << >>]]

HasKey(reg, tool_name) == tool_name \in Range(reg.keys)

\* self._tools[tool_name] = tool_instance  (a new key goes last, an old key
\* keeps its place)
DictSet(reg, tool_name, tool_instance) ==
    IF HasKey(reg, tool_name)
    THEN [reg EXCEPT !.tools = [reg.tools EXCEPT ![tool_name] = tool_instance]]
    ELSE [reg EXCEPT !.keys = Append(reg.keys, tool_name),
                     !.tools = [k \in Range(reg.keys) \cup {tool_name} |->
                                   IF k = tool_name THEN tool_instance
                                   ELSE reg.tools[k]]]

\* Mutants of register_tool: a name once registered keeps its first instance;
\* a falsy instance is listed but not stored.
register_tool_keeps_first(reg, tool_name, tool_instance, category) ==
    LET stored == IF HasKey(reg, tool_name) THEN reg
                  ELSE DictSet(reg, tool_name, tool_instance)
    IN  IF tool_name \in Range(reg.categories[category]) THEN stored
        ELSE [stored EXCEPT
                !.categories[category] = Append(reg.categories[category], tool_name)]

register_tool_skips_falsy(reg, tool_name, tool_instance, category) ==
    LET stored == IF Truthy(tool_instance)
                  THEN DictSet(reg, tool_name, tool_instance) ELSE reg
    IN  IF tool_name \in Range(reg.categories[category]) THEN stored
        ELSE [stored EXCEPT
                !.categories[category] = Append(reg.categories[category], tool_name)]

\* Mutant of register_tool: a name registered again moves to the end of the
\* name map and of its category's list.
register_tool_moves_to_end(reg, tool_name, tool_instance, category) ==
    LET Without(names) == SelectSeq(names, LAMBDA n : n # tool_name)
        moved == [keys |-> Append(Without(reg.keys), tool_name),
                  tools |-> [k \in Range(reg.keys) \cup {tool_name} |->
                                IF k = tool_name THEN tool_instance
                                ELSE reg.tools[k]],
                  categories |-> reg.categories]
    IN  [moved EXCEPT
            !.categories[category] = Append(Without(reg.categories[category]),
                                            tool_name)]

\* ToolRegistry.register_tool
register_tool(reg, tool_name, tool_instance, category) ==
    LET stored == DictSet(reg, tool_name, tool_instance)
    IN  IF tool_name \in Range(reg.categories[category]) THEN stored
        ELSE [stored EXCEPT
                !.categories[category] = Append(reg.categories[category], tool_name)]

\* ToolRegistry.get_tool : self._tools.get(tool_name), Python's None when absent
get_tool(reg, tool_name) ==
    IF HasKey(reg, tool_name) THEN reg.tools[tool_name] ELSE NoneInstance

\* ToolRegistry.list_tools(category) and list_tools()
list_tools_in(reg, category) == reg.categories[category]
list_tools(reg) == reg.keys

\* ToolRegistry.get_tool_count
get_tool_count(reg) == Len(reg.keys)

\* ToolRegistry.get_categories : the non-empty categories with their sizes
get_categories(reg) ==
    [c \in {d \in Categories : reg.categories[d] # << >>} |-> Len(reg.categories[c])]

(***************************************************************************)
(* Category providers.  What importing a category's toolkit and calling    *)
(* its constructors does is the environment's choice:                      *)
(*   ok            the import and every constructor succeed                *)
(*   import_error  the import raises ImportError                           *)
(*   ctor_error    constructor number `at` (0-based) raises an Exception   *)
(*                 that is no ImportError; the tools before it are already *)
(*                 registered                                              *)
(***************************************************************************)
ProviderOk == [kind |-> "ok", at |-> 0]
ProviderImportError == [kind |-> "import_error", at |-> 0]
ProviderCtorError(k) == [kind |-> "ctor_error", at |-> k]

\* The faults considered: a failed import, and a second constructor that raises.
ProviderFaults == {ProviderImportError, ProviderCtorError(1)}

\* The providers' behaviour during one initialize call, per requested
\* category: all in order, or exactly one of them faulty.
ProviderChoices(cats) ==
    LET allOk == [c \in cats |-> ProviderOk]
    IN  {allOk} \cup {[allOk EXCEPT ![c] = f] : c \in cats, f \in ProviderFaults}

\* The running state of one initialize call: the agent's registry, the
\* objects constructed so far, whether an exception is propagating, and the
\* register_tool calls made (for the history variables).
RegCall(tool_name, tool_instance, category) ==
    [name |-> tool_name, inst |-> tool_instance, cat |-> category]

RECURSIVE RegisterTools(_, _, _, _, _)
\* self.registry.register_tool(names[i], Cls(), category) for i = from .. upto
RegisterTools(st, category, names, from, upto) ==
    IF from > upto THEN st
    ELSE LET inst == Constructed(names[from], st.constructed + 1)
         IN  RegisterTools(
                 [st EXCEPT
                    !.registry = register_tool(st.registry, names[from], inst, category),
                    !.constructed = st.constructed + 1,
                    !.log = Append(st.log, RegCall(names[from], inst, category))],
                 category, names, from + 1, upto)

\* The body shared by the five _register_*_tools: import, then construct and
\* register each tool in turn; `reraise` is whether the ImportError handler
\* ends in `raise`.
RegisterProvided(st, category, beh, reraise) ==
    CASE beh.kind = "import_error" -> [st EXCEPT !.raised = reraise]
      [] beh.kind = "ctor_error" ->
            [RegisterTools(st, category, CategoryTools(category), 1, beh.at)
                EXCEPT !.raised = TRUE]
      [] OTHER ->
            RegisterTools(st, category, CategoryTools(category), 1,
                          Len(CategoryTools(category)))

\* SpoonOSAgent._register_crypto_data_tools : `except ImportError: ... raise`
register_crypto_data_tools(st, beh) ==
    RegisterProvided(st, "crypto_data", beh, TRUE)

\* SpoonOSAgent._register_crypto_powerdata_tools : ImportError only logged
register_crypto_powerdata_tools(st, beh) ==
    RegisterProvided(st, "crypto_powerdata", beh, FALSE)

\* SpoonOSAgent._register_crypto_evm_tools : ImportError only logged
register_crypto_evm_tools(st, beh) ==
    RegisterProvided(st, "crypto_evm", beh, FALSE)

\* SpoonOSAgent._register_crypto_neo_tools : ImportError only logged
register_crypto_neo_tools(st, beh) ==
    RegisterProvided(st, "crypto_neo", beh, FALSE)

\* SpoonOSAgent._register_github_tools : ImportError only logged
register_github_tools(st, beh) ==
    RegisterProvided(st, "github", beh, FALSE)

\* SpoonOSAgent._register_category_tools : dispatch on the category; whatever
\* the provider raises is logged and raised again.
register_category_tools(st, category, beh) ==
    CASE category = "crypto_data" -> register_crypto_data_tools(st, beh)
      [] category = "crypto_powerdata" -> register_crypto_powerdata_tools(st, beh)
      [] category = "crypto_evm" -> register_crypto_evm_tools(st, beh)
      [] category = "crypto_neo" -> register_crypto_neo_tools(st, beh)
      [] category = "github" -> register_github_tools(st, beh)

RECURSIVE RegisterCategories(_, _, _, _)
\* for category in categories_to_init: await self._register_category_tools(category)
\* (an exception leaves the loop)
RegisterCategories(st, cats, beh, i) ==
    IF i > Len(cats) \/ st.raised THEN st
    ELSE RegisterCategories(register_category_tools(st, cats[i], beh[cats[i]]),
                            cats, beh, i + 1)

\* categories_to_init = tool_categories or [ToolCategory.CRYPTO_DATA]
\* (None and the empty list are both falsy)
categories_to_init(tool_categories) ==
    IF tool_categories = None \/ tool_categories[1] = << >>
    THEN <<"crypto_data">>
    ELSE tool_categories[1]

InitState(reg, isInit, count) ==
    [registry |-> reg, initialized |-> isInit, constructed |-> count,
     raised |-> FALSE, log |-> << >>]

\* Mutant: initialize without its `if self._initialized: return`.
initialize_again(reg, isInit, count, tool_categories, beh) ==
    LET st == RegisterCategories(InitState(reg, isInit, count),
                                 categories_to_init(tool_categories), beh, 1)
    IN  IF st.raised THEN st ELSE [st EXCEPT !.initialized = TRUE]

\* SpoonOSAgent.initialize
initialize(reg, isInit, count, tool_categories, beh) ==
    IF isInit
    THEN InitState(reg, isInit, count)
    ELSE LET st == RegisterCategories(InitState(reg, isInit, count),
                                      categories_to_init(tool_categories), beh, 1)
         IN  IF st.raised THEN st ELSE [st EXCEPT !.initialized = TRUE]

(***************************************************************************)
(* ToolExecutionResult and the messages execute_tool builds.               *)
(***************************************************************************)
ToolExecutionResult(success, tool_name, category, data, error) ==
    [success |-> success, tool_name |-> tool_name, category |-> category,
     data |-> data, error |-> error, metadata |-> None]

\* f"{timeout}" of a float given in tenths of a second: 300 is "30.0"
str_float(tenths) == ToString(tenths \div 10) \o "." \o ToString(tenths % 10)

\* f"{timeout}" of an Optional[float]
str_timeout(timeout) == IF timeout = None THEN "None" ELSE str_float(timeout[1])

RECURSIVE JoinQuoted(_, _)
JoinQuoted(names, i) ==
    IF i > Len(names) THEN ""
    ELSE (IF i > 1 THEN ", " ELSE "") \o "'" \o names[i] \o "'"
            \o JoinQuoted(names, i + 1)

\* f"{available_tools}" of a list of str
str_list(names) == "[" \o JoinQuoted(names, 1) \o "]"

NotInitializedError == "Agent not initialized. Call initialize() first."

NotFoundError(tool_name, available_tools) ==
    "Tool '" \o tool_name \o "' not found. Available tools: "
        \o str_list(available_tools)

TimedOutError(timeout) ==
    "Tool execution timed out after " \o str_timeout(timeout) \o " seconds"

FailedError(text) == "Tool execution failed: " \o text

(***************************************************************************)
(* What a tool's execute coroutine can do.  It returns an object, raises *)
(* an Exception, or is still pending; which is the tool's choice.  A       *)
(* returned object has or lacks the attributes `output` and `error`; a     *)
(* raised exception is of class asyncio.TimeoutError or of another class   *)
(* under Exception, and has its str().                                     *)
(***************************************************************************)
ReturnObject(has_output, output, has_error, error, value) ==
    [has_output |-> has_output, output |-> output,
     has_error |-> has_error, error |-> error, value |-> value]

ReturnObjects ==
    {ReturnObject(FALSE, None, FALSE, None, Some("42")),            \* a plain value
     ReturnObject(TRUE, Some("out"), TRUE, None, None),             \* ToolResult(output=..)
     ReturnObject(TRUE, None, TRUE, Some("bad input"), None),       \* ToolResult(error=..)
     ReturnObject(TRUE, Some("out"), TRUE, Some(""), None),         \* error=""
     ReturnObject(TRUE, Some("out"), FALSE, None, None)}            \* output only

ExceptionClasses == {"Exception", "TimeoutError"}
ExceptionTexts == {"boom"}

\* Category resolution: the first category, in enum order, whose list holds
\* the name; "unknown" when none does.
RECURSIVE ResolveFrom(_, _, _)
ResolveFrom(reg, tool_name, i) ==
    IF i > Len(ToolCategory) THEN "unknown"
    ELSE IF tool_name \in Range(list_tools_in(reg, ToolCategory[i]))
         THEN ToolCategory[i]
         ELSE ResolveFrom(reg, tool_name, i + 1)

resolve_category(reg, tool_name) == ResolveFrom(reg, tool_name, 1)

\* parameters or {}
kwargs_of(parameters) == IF parameters = None THEN << >> ELSE parameters[1]

(***************************************************************************)
(* The frame of an execute_tool call.  pc is where the call is:            *)
(*   idle      not called yet                                              *)
(*   awaiting  suspended in `await asyncio.wait_for(tool.execute(..), ..)` *)
(*   returned  returned a ToolExecutionResult                              *)
(*   raised    left by an exception                                        *)
(* task is the wrapped tool invocation: none, running, done or cancelled.  *)
(* `how` records how the wait ended (history).                             *)
(***************************************************************************)
NoHow == [by |-> "none", exc |-> "", text |-> ""]

How(by, exc, text) == [by |-> by, exc |-> exc, text |-> text]

\* How a wait ended in which the invocation returned obj.
HowReturned(obj) == [by |-> "return", exc |-> "", text |-> "", obj |-> obj]

IdleFrame ==
    [pc |-> "idle", tool_name |-> "", kwargs |-> << >>, timeout |-> None,
     category |-> "", tool |-> NoneInstance, task |-> "none", how |-> NoHow]

\* A frame whose call has ended: its locals are gone.
EndedFrame(frame, pc, task, how) ==
    [IdleFrame EXCEPT !.pc = pc, !.tool_name = frame.tool_name,
                      !.task = task, !.how = how]

Step(frame, delivered) == [frame |-> frame, delivered |-> delivered]

\* Mutants of execute_tool_begin: without the initialized check; with the
\* not-found message listing the first category only.
execute_tool_begin_unchecked(reg, isInit, tool_name, parameters, timeout) ==
    LET tool == get_tool(reg, tool_name)
        called == [IdleFrame EXCEPT !.tool_name = tool_name]
    IN  IF ~Truthy(tool)
        THEN Step(EndedFrame(called, "returned", "none", NoHow),
                  <<ToolExecutionResult(FALSE, tool_name, "unknown", None,
                        Some(NotFoundError(tool_name, list_tools(reg))))>>)
        ELSE Step([called EXCEPT !.pc = "awaiting",
                                 !.kwargs = kwargs_of(parameters),
                                 !.timeout = timeout,
                                 !.category = resolve_category(reg, tool_name),
                                 !.tool = tool,
                                 !.task = "running"],
                  << >>)

execute_tool_begin_lists_first_category(reg, isInit, tool_name, parameters, timeout) ==
    LET tool == get_tool(reg, tool_name)
        called == [IdleFrame EXCEPT !.tool_name = tool_name]
    IN  IF ~isInit
        THEN Step(EndedFrame(called, "returned", "none", NoHow),
                  <<ToolExecutionResult(FALSE, tool_name, "unknown", None,
                        Some(NotInitializedError))>>)
        ELSE IF ~Truthy(tool)
        THEN Step(EndedFrame(called, "returned", "none", NoHow),
                  <<ToolExecutionResult(FALSE, tool_name, "unknown", None,
                        Some(NotFoundError(tool_name,
                                list_tools_in(reg, ToolCategory[1]))))>>)
        ELSE Step([called EXCEPT !.pc = "awaiting",
                                 !.kwargs = kwargs_of(parameters),
                                 !.timeout = timeout,
                                 !.category = resolve_category(reg, tool_name),
                                 !.tool = tool,
                                 !.task = "running"],
                  << >>)

\* SpoonOSAgent.execute_tool up to its await: the two early returns, the
\* category resolution and the start of the bounded invocation.
execute_tool_begin(reg, isInit, tool_name, parameters, timeout) ==
    LET tool == get_tool(reg, tool_name)
        called == [IdleFrame EXCEPT !.tool_name = tool_name]
    IN  IF ~isInit
        THEN Step(EndedFrame(called, "returned", "none", NoHow),
                  <<ToolExecutionResult(FALSE, tool_name, "unknown", None,
                        Some(NotInitializedError))>>)
        ELSE IF ~Truthy(tool)
        THEN Step(EndedFrame(called, "returned", "none", NoHow),
                  <<ToolExecutionResult(FALSE, tool_name, "unknown", None,
                        Some(NotFoundError(tool_name, list_tools(reg))))>>)
        ELSE Step([called EXCEPT !.pc = "awaiting",
                                 !.kwargs = kwargs_of(parameters),
                                 !.timeout = timeout,
                                 !.category = resolve_category(reg, tool_name),
                                 !.tool = tool,
                                 !.task = "running"],
                  << >>)

\* Mutant: a structured return value always reported as a success.
result_of_return_always_success(tool_name, category, obj) ==
    IF obj.has_output
    THEN ToolExecutionResult(TRUE, tool_name, category, obj.output,
                             IF obj.has_error THEN obj.error ELSE None)
    ELSE ToolExecutionResult(TRUE, tool_name, category, obj.value, None)

\* "Handle different result formats": the ToolExecutionResult of a returned object
result_of_return(tool_name, category, obj) ==
    IF obj.has_output
    THEN ToolExecutionResult(~obj.has_error \/ obj.error = None,
                             tool_name, category, obj.output,
                             IF obj.has_error THEN obj.error ELSE None)
    ELSE ToolExecutionResult(TRUE, tool_name, category, obj.value, None)

\* Mutant: the timeout message without the timeout value.
result_of_timeout_unnamed(tool_name, category, timeout) ==
    ToolExecutionResult(FALSE, tool_name, category, None,
                        Some("Tool execution timed out"))

\* `except asyncio.TimeoutError:`
result_of_timeout(tool_name, category, timeout) ==
    ToolExecutionResult(FALSE, tool_name, category, None,
                        Some(TimedOutError(timeout)))

\* `except Exception as e:`
result_of_exception(tool_name, category, text) ==
    ToolExecutionResult(FALSE, tool_name, category, None, Some(FailedError(text)))

\* asyncio.wait_for when the timeout elapses first: the invocation is
\* cancelled and asyncio.TimeoutError is raised into execute_tool's handler.
wait_for_timeout(frame) ==
    Step(EndedFrame(frame, "returned", "cancelled", NoHow),
         <<result_of_timeout(frame.tool_name, frame.category, frame.timeout)>>)

\* The invocation returned obj: wait_for hands it to the result handling.
wait_for_returned(frame, obj) ==
    Step(EndedFrame(frame, "returned", "done", NoHow),
         <<result_of_return(frame.tool_name, frame.category, obj)>>)

\* The invocation raised: wait_for lets the exception through, and the first
\* matching except clause of execute_tool builds the result.
wait_for_raised(frame, exc, text) ==
    IF exc = "TimeoutError"
    THEN Step(EndedFrame(frame, "returned", "done", NoHow),
              <<result_of_timeout(frame.tool_name, frame.category, frame.timeout)>>)
    ELSE Step(EndedFrame(frame, "returned", "done", NoHow),
              <<result_of_exception(frame.tool_name, frame.category, text)>>)

(***************************************************************************)
(* SpoonOSAgent.health_check.                                              *)
(***************************************************************************)
\* Mutant: total_tools counted over the category lists.
health_check_counts_listed(reg, isInit) ==
    LET sizes == get_categories(reg)
        RECURSIVE Sum(_)
        Sum(i) == IF i > Len(ToolCategory) THEN 0
                  ELSE (IF ToolCategory[i] \in DOMAIN sizes
                        THEN sizes[ToolCategory[i]] ELSE 0) + Sum(i + 1)
    IN  [initialized |-> isInit,
         total_tools |-> Sum(1),
         tools_by_category |-> sizes,
         status |-> IF isInit THEN "healthy" ELSE "not_initialized"]

health_check(reg, isInit) ==
    [initialized |-> isInit,
     total_tools |-> get_tool_count(reg),
     tools_by_category |-> get_categories(reg),
     status |-> IF isInit THEN "healthy" ELSE "not_initialized"]

(***************************************************************************)
(* SpoonOSAgent.execute_batch.                                             *)
(***************************************************************************)
BatchDefaultTimeout == 300   \* cmd.get("timeout", 30.0)

\* A command dict: it has "tool_name", may have "parameters" (None when it
\* has not) and has or lacks "timeout" (whose value may be None).
Command(tool_name, parameters, has_timeout, timeout) ==
    [tool_name |-> tool_name, parameters |-> parameters,
     has_timeout |-> has_timeout, timeout |-> timeout]

\* cmd.get("timeout", 30.0)
cmd_timeout(cmd) ==
    IF cmd.has_timeout THEN cmd.timeout ELSE Some(BatchDefaultTimeout)

(***************************************************************************)
(* The frame of an execute_batch call.  pc is idle, running (suspended in  *)
(* an await) or returned.  frames[i] is the execute_tool call of command i *)
(* and delivered[i] what that call returned; `results` is the list the     *)
(* sequential loop appends to and `next` the command the loop is at; `out` *)
(* is the list execute_batch returned.  `order` records the order in which *)
(* the execute_tool calls ended (history).                                 *)
(***************************************************************************)
IdleBatch ==
    [pc |-> "idle", parallel |-> FALSE, commands |-> << >>, frames |-> << >>,
     delivered |-> << >>, results |-> << >>, next |-> 1, order |-> << >>,
     out |-> << >>]

\* self.execute_tool(cmd.get("tool_name"), cmd.get("parameters"),
\*                   cmd.get("timeout", 30.0)), up to its return or suspension
batch_execute_tool(cmd, reg, isInit) ==
    execute_tool_begin(reg, isInit, cmd.tool_name, cmd.parameters, cmd_timeout(cmd))

\* The sequential loop from command b.next on, up to the first command whose
\* execute_tool call suspends, or to the return of the accumulated list.
RECURSIVE RunSequential(_, _, _)
RunSequential(b, reg, isInit) ==
    IF b.next > Len(b.commands)
    THEN [b EXCEPT !.pc = "returned", !.out = b.results]
    ELSE LET i == b.next
             step == batch_execute_tool(b.commands[i], reg, isInit)
         IN  IF step.delivered = << >>
             THEN [b EXCEPT !.frames[i] = step.frame]
             ELSE RunSequential(
                    [b EXCEPT !.frames[i] = step.frame,
                              !.delivered[i] = step.delivered,
                              !.results = Append(@, step.delivered[1]),
                              !.order = Append(@, i),
                              !.next = i + 1],
                    reg, isInit)

\* The parallel branch up to `await asyncio.gather(..)`: one task per
\* command, each run up to its return or its suspension.
StartParallel(b, reg, isInit) ==
    LET steps == [i \in 1..Len(b.commands) |->
                    batch_execute_tool(b.commands[i], reg, isInit)]
        ended == {i \in 1..Len(b.commands) : steps[i].delivered # << >>}
        RECURSIVE Ascending(_)
        Ascending(i) == IF i > Len(b.commands) THEN << >>
                        ELSE (IF i \in ended THEN <<i>> ELSE << >>)
                                \o Ascending(i + 1)
    IN  [b EXCEPT !.frames = [i \in 1..Len(b.commands) |-> steps[i].frame],
                  !.delivered = [i \in 1..Len(b.commands) |-> steps[i].delivered],
                  !.order = Ascending(1)]

\* execute_batch(commands, parallel) up to its first suspension or its return
execute_batch_begin(commands, parallel, reg, isInit) ==
    LET b == [IdleBatch EXCEPT
                !.pc = "running", !.parallel = parallel, !.commands = commands,
                !.frames = [i \in 1..Len(commands) |-> IdleFrame],
                !.delivered = [i \in 1..Len(commands) |-> << >>]]
    IN  IF parallel THEN StartParallel(b, reg, isInit)
        ELSE RunSequential(b, reg, isInit)

\* The execute_tool call of command i ends as `step` says: a task of gather
\* is done, or the sequential loop appends the result and goes on.
batch_resume(b, i, step, how, reg, isInit) ==
    LET b1 == [b EXCEPT !.frames[i] = [step.frame EXCEPT !.how = how],
                        !.delivered[i] = step.delivered,
                        !.order = Append(@, i)]
    IN  IF b.parallel THEN b1
        ELSE RunSequential([b1 EXCEPT !.results = Append(@, step.delivered[1]),
                                      !.next = i + 1],
                           reg, isInit)

\* Mutant: one timeout that cancels every invocation still running.
batch_timeout_cancels_all(b, i, reg, isInit) ==
    LET running == {j \in 1..Len(b.frames) : b.frames[j].task = "running"}
    IN  [b EXCEPT
           !.frames = [j \in 1..Len(b.frames) |->
                         IF j \in running
                         THEN [wait_for_timeout(b.frames[j]).frame
                                 EXCEPT !.how = How("timer", "", "")]
                         ELSE b.frames[j]],
           !.delivered = [j \in 1..Len(b.frames) |->
                            IF j \in running
                            THEN wait_for_timeout(b.frames[j]).delivered
                            ELSE b.delivered[j]],
           !.order = Append(@, i)]

\* The timeout of command i's wait_for elapses.
batch_timeout(b, i, reg, isInit) ==
    batch_resume(b, i, wait_for_timeout(b.frames[i]), How("timer", "", ""),
                 reg, isInit)

\* Mutant: the results in the order in which the calls ended.
gather_as_completed(b) ==
    [k \in 1..Len(b.order) |-> b.delivered[b.order[k]][1]]

\* asyncio.gather(*tasks, return_exceptions=True) once every task is done:
\* slot i is what task i returned, or the exception that ended it.
gather(b) ==
    [i \in 1..Len(b.frames) |->
        IF b.frames[i].pc = "raised" THEN b.frames[i].how
        ELSE b.delivered[i][1]]

(***************************************************************************)
(* SpoonOSIntegration.                                                     *)
(***************************************************************************)
\* Python str methods, over ASCII letters.
LowerChars == "abcdefghijklmnopqrstuvwxyz"
UpperChars == "ABCDEFGHIJKLMNOPQRSTUVWXYZ"

\* The position of the one-character string ch in `chars`, 0 when absent.
CharIndex(chars, ch) ==
    LET hits == {k \in 1..Len(chars) : SubSeq(chars, k, k) = ch}
    IN  IF hits = {} THEN 0 ELSE CHOOSE k \in hits : TRUE

\* s with every character found in `from` replaced by its partner in `to`
RECURSIVE Translate(_, _, _)
Translate(s, from, to) ==
    IF s = "" THEN ""
    ELSE LET ch == SubSeq(s, 1, 1)
             k == CharIndex(from, ch)
         IN  (IF k = 0 THEN ch ELSE SubSeq(to, k, k))
                \o Translate(SubSeq(s, 2, Len(s)), from, to)

str_lower(s) == Translate(s, UpperChars, LowerChars)      \* s.lower()
str_upper(s) == Translate(s, LowerChars, UpperChars)      \* s.upper()
str_replace(s, old, new) == Translate(s, old, new)        \* one-character old, new

\* `text in s`
str_in(text, s) ==
    \E k \in 1..(Len(s) - Len(text) + 1) : SubSeq(s, k, k + Len(text) - 1) = text

\* A dict with str keys is a function on its key set.
EmptyDict == [k \in {} |-> ""]
dict_get(d, key, default) == IF key \in DOMAIN d THEN d[key] ELSE default
dict_pop(d, key) == [k \in DOMAIN d \ {key} |-> d[k]]
dict_set(d, key, value) ==
    [k \in DOMAIN d \cup {key} |-> IF k = key THEN value ELSE d[k]]

\* Intent(action, parameters, confidence, reasoning): the two fields the
\* integration reads
Intent(action, parameters) == [action |-> action, parameters |-> parameters]

\* SpoonOSIntegration._init_tool_mappings
tool_mappings ==
    [check_balance |-> "evm_balance",
     get_balance |-> "evm_balance",
     get_transactions |-> "get_24h_stats",
     get_token_price |-> "get_token_price",
     get_price |-> "get_token_price",
     price_info |-> "get_token_price",
     get_ohlcv |-> "crypto_powerdata_cex",
     get_kline |-> "get_kline_data",
     get_candles |-> "crypto_powerdata_cex",
     get_kline_data |-> "get_kline_data",
     estimate_gas |-> "evm_swap_quote",
     gas_estimate |-> "evm_swap_quote",
     swap_tokens |-> "evm_swap",
     token_swap |-> "evm_swap",
     execute_swap |-> "evm_swap",
     execute_contract |-> "evm_transfer",
     contract_call |-> "evm_transfer",
     get_nft_info |-> "get_24h_stats",
     nft_info |-> "get_24h_stats",
     general_info |-> "get_token_price",
     market_data |-> "get_kline_data"]

\* Mutant: the keyword looked for in the action as it is written.
map_intent_to_tool_case_sensitive(action) ==
    LET tool_name == dict_get(tool_mappings, action, "")
    IN  IF tool_name = ""
        THEN IF str_in("balance", action) THEN "evm_balance"
             ELSE IF str_in("price", action) THEN "get_token_price"
             ELSE "get_token_price"
        ELSE tool_name

\* Mutant: the keyword rule answers with names of the table's keys, which
\* are not names of tools.
map_intent_to_tool_unregistered_default(action) ==
    LET tool_name == dict_get(tool_mappings, action, "")
    IN  IF tool_name = ""
        THEN IF str_in("balance", str_lower(action)) THEN "get_balance"
             ELSE IF str_in("price", str_lower(action)) THEN "get_price"
             ELSE "get_price"
        ELSE tool_name

\* SpoonOSIntegration._map_intent_to_tool; `not tool_name` holds of None
\* (no entry) and of "".
map_intent_to_tool(action) ==
    LET tool_name == dict_get(tool_mappings, action, "")
    IN  IF tool_name = ""
        THEN IF str_in("balance", str_lower(action)) THEN "evm_balance"
             ELSE IF str_in("price", str_lower(action)) THEN "get_token_price"
             ELSE "get_token_price"
        ELSE tool_name

\* "Convert single token to trading pair"
trading_pair(token) ==
    IF token \in {"ETH", "ETHEREUM"} THEN "ETH-USDC"
    ELSE IF token \in {"BTC", "BITCOIN"} THEN "BTC-USDT"
    ELSE token \o "-USDC"

\* Mutant: the USDC pair for every token.
prepare_price_parameters_usdc_only(params) ==
    LET paired ==
            IF "token" \in DOMAIN params /\ "symbol" \notin DOMAIN params
            THEN dict_set(dict_pop(params, "token"), "symbol",
                          str_upper(params["token"]) \o "-USDC")
            ELSE IF "symbol" \in DOMAIN params /\ ~str_in("-", params["symbol"])
            THEN dict_set(params, "symbol",
                          str_upper(params["symbol"]) \o "-USDC")
            ELSE params
    IN  dict_pop(dict_pop(dict_pop(paired, "address"), "vs_currency"),
                 "wallet_address")

\* _prepare_tool_parameters, the branch of get_token_price
prepare_price_parameters(params) ==
    LET paired ==
            IF "token" \in DOMAIN params /\ "symbol" \notin DOMAIN params
            THEN dict_set(dict_pop(params, "token"), "symbol",
                          trading_pair(str_upper(params["token"])))
            ELSE IF "symbol" \in DOMAIN params /\ ~str_in("-", params["symbol"])
            THEN dict_set(params, "symbol",
                          trading_pair(str_upper(params["symbol"])))
            ELSE params
    IN  dict_pop(dict_pop(dict_pop(paired, "address"), "vs_currency"),
                 "wallet_address")

\* Mutant of the branch of evm_balance: an address the caller gave is kept
\* when a wallet_address is given too.
prepare_balance_parameters_keeps_address(params) ==
    LET renamed ==
            IF "wallet_address" \in DOMAIN params /\ "address" \notin DOMAIN params
            THEN dict_set(dict_pop(params, "wallet_address"), "address",
                          params["wallet_address"])
            ELSE dict_pop(params, "wallet_address")
    IN  dict_pop(dict_pop(renamed, "token"), "symbol")

\* _prepare_tool_parameters, the branch of evm_balance
prepare_balance_parameters(params) ==
    LET renamed ==
            IF "wallet_address" \in DOMAIN params
            THEN dict_set(dict_pop(params, "wallet_address"), "address",
                          params["wallet_address"])
            ELSE params
    IN  dict_pop(dict_pop(renamed, "token"), "symbol")

\* _prepare_tool_parameters, the branch of get_kline_data
prepare_kline_parameters(params) ==
    LET fixed ==
            IF "symbol" \in DOMAIN params
            THEN dict_set(params, "symbol", str_replace(params["symbol"], "/", "-"))
            ELSE params
        framed ==
            IF "interval" \in DOMAIN fixed
            THEN dict_set(dict_pop(fixed, "interval"), "timeframe", fixed["interval"])
            ELSE IF "timeframe" \notin DOMAIN fixed
            THEN dict_set(fixed, "timeframe", "1h")
            ELSE fixed
    IN  dict_pop(dict_pop(framed, "exchange"), "address")

\* SpoonOSIntegration._prepare_tool_parameters: the dict it returns
prepare_tool_parameters(intent, tool_name) ==
    IF tool_name = "evm_balance" THEN prepare_balance_parameters(intent.parameters)
    ELSE IF tool_name = "get_token_price"
    THEN prepare_price_parameters(intent.parameters)
    ELSE IF tool_name = "get_kline_data"
    THEN prepare_kline_parameters(intent.parameters)
    ELSE intent.parameters

\* Mutant: `params = intent.parameters`, the pops and assignments of
\* _prepare_tool_parameters then act on the intent's own dict.
intent_after_prepare_aliased(intent, tool_name) ==
    [intent EXCEPT !.parameters = prepare_tool_parameters(intent, tool_name)]

\* The caller's Intent object after _prepare_tool_parameters:
\* `params = intent.parameters.copy()` makes a new dict, every pop and
\* assignment that follows acts on `params`, and the values are strings, so
\* the intent's own dict is as it was.
intent_after_prepare(intent, tool_name) ==
    [action |-> intent.action,
     parameters |-> [k \in DOMAIN intent.parameters |-> intent.parameters[k]]]

\* SpoonOSIntegration.__init__, in a process whose `from agent import ..`
\* succeeded (available) or raised ImportError.
SpoonOSIntegration(available) ==
    [available |-> available, agent |-> FALSE, is_connected |-> FALSE]

\* The frame of a send_intent call.  pc is idle, routed (tool name and
\* parameters worked out), awaiting (suspended in execute_tool) or returned.
\* `intent` is the caller's Intent object as it is now, `given` (history) its
\* value when the call was made.
IdleSend ==
    [pc |-> "idle", intent |-> Intent("", EmptyDict),
     given |-> Intent("", EmptyDict), tool_name |-> "",
     tool_params |-> EmptyDict, response |-> None]

\* SpoonOSResponse(success, output, follow_up_questions)
SpoonOSResponse(success, output, follow_up_questions) ==
    [success |-> success, output |-> output,
     follow_up_questions |-> follow_up_questions]

\* The categories SpoonOSIntegration.initialize asks for, in its order.
IntegrationCategories ==
    <<"crypto_data", "crypto_evm", "crypto_neo", "github", "crypto_powerdata">>

\* SpoonOSIntegration.initialize: a new SpoonOSAgent, initialized with all
\* categories; connected unless agent.initialize raised.  `state` is the new
\* agent's state (the old one's when SPOONOS_AVAILABLE is False).
integration_initialize(integ, reg, isInit, count, beh) ==
    IF ~integ.available
    THEN [integration |-> integ, state |-> InitState(reg, isInit, count),
          returned |-> FALSE]
    ELSE LET st == initialize(NewRegistry, FALSE, count,
                              Some(IntegrationCategories), beh)
         IN  [integration |-> [integ EXCEPT !.agent = TRUE,
                                            !.is_connected = ~st.raised],
              state |-> st,
              returned |-> ~st.raised]

\* f"{data}" of a tool's data: a str, or None
str_data(data) == IF data = None THEN "None" ELSE data[1]

\* SpoonOSIntegration._format_success_output; the data of the tools
\* considered is a str or None, never a dict
format_success_output(result, action) ==
    LET data == str_data(result.data)
    IN  IF action \in {"check_balance", "get_balance"}
        THEN ":moneybag: Balance information: " \o data
        ELSE IF action \in {"get_token_price", "price_info"}
        THEN ":heavy_dollar_sign: Current price: " \o data
        ELSE IF action \in {"swap_tokens", "token_swap"}
        THEN ":arrows_counterclockwise: Swap Result: " \o data
        ELSE IF action \in {"estimate_gas", "gas_estimate"}
        THEN ":fuelpump: Gas Estimate: " \o data
        ELSE IF action = "get_transactions"
        THEN ":clipboard: Transaction Data: " \o data
        ELSE ":white_check_mark: " \o result.tool_name \o " Result: " \o data

\* SpoonOSIntegration._generate_follow_up_questions
generate_follow_up_questions(action) ==
    IF action = "check_balance"
    THEN Some(<<"Would you like to see your transaction history?",
                "Do you want to check other token balances?">>)
    ELSE IF action = "get_token_price"
    THEN Some(<<"Would you like to see the 24h price chart?",
                "Do you want to check other token prices?">>)
    ELSE IF action = "estimate_gas"
    THEN Some(<<"Would you like me to execute this transaction?",
                "Do you want to see alternative routes?">>)
    ELSE None

\* SpoonOSIntegration._fallback_response
FallbackDisclaimer ==
    "\n\n:warning: Note: This is a fallback response. Real SpoonOS integration unavailable."

fallback_response(intent) ==
    LET action == intent.action
        params == intent.parameters
        fallback_responses ==
            [check_balance |->
                ":moneybag: Mock Balance: 2.5 ETH (~$6,250) for address "
                    \o dict_get(params, "address", "your wallet"),
             get_token_price |->
                ":heavy_dollar_sign: Mock Price: ETH/USDC = $2,500.00 (+2.5% 24h)",
             estimate_gas |-> ":fuelpump: Mock Gas: ~21,000 units ($3.50 USD)",
             swap_tokens |->
                ":arrows_counterclockwise: Mock Swap: Would swap "
                    \o dict_get(params, "amount", "1") \o " "
                    \o dict_get(params, "from_token", "ETH") \o " -> "
                    \o dict_get(params, "to_token", "USDC"),
             get_transactions |->
                ":clipboard: Mock Transactions: Latest 5 transactions would be shown here",
             execute_contract |->
                ":page_facing_up: Mock Contract: Contract interaction would be executed",
             get_nft_info |->
                ":frame_with_picture: Mock NFT: NFT collection info would be displayed"]
        output == dict_get(fallback_responses, action,
                           ":robot_face: Mock response for: " \o action)
    IN  SpoonOSResponse(TRUE, output \o FallbackDisclaimer,
                        Some(<<"Would you like to try another Web3 operation?">>))

\* SpoonOSIntegration._format_spoonos_result; `result.error or ..` takes the
\* second text for None and for ""
format_spoonos_result(result, intent) ==
    IF result.success
    THEN SpoonOSResponse(TRUE, format_success_output(result, intent.action),
                         generate_follow_up_questions(intent.action))
    ELSE SpoonOSResponse(FALSE,
            ":x: " \o (IF result.error \in {None, Some("")}
                       THEN "Unknown error occurred" ELSE result.error[1]),
            Some(<<"Would you like to try with different parameters?">>))

\* send_intent's routing: the tool name for the intent's action and the
\* parameters prepared for that tool
route_intent(intent) ==
    LET tool_name == map_intent_to_tool(intent.action)
    IN  [IdleSend EXCEPT !.pc = "routed",
                         !.intent = intent_after_prepare(intent, tool_name),
                         !.given = intent,
                         !.tool_name = tool_name,
                         !.tool_params = prepare_tool_parameters(intent, tool_name)]

SendTimeout == 300   \* timeout=30.0

\* The send_intent call returns `response`.
send_return(send, response) ==
    [send EXCEPT !.pc = "returned", !.response = Some(response)]

\* Mutant: the fallback taken only when there is no agent object.
send_intent_begin_agent_only(integ, reg, isInit, intent) ==
    IF ~integ.agent
    THEN [send |-> send_return([IdleSend EXCEPT !.intent = intent,
                                                !.given = intent],
                               fallback_response(intent)),
          executes |-> FALSE,
          step |-> Step(IdleFrame, << >>)]
    ELSE LET routed == route_intent(intent)
             step == execute_tool_begin(reg, isInit, routed.tool_name,
                                        Some(routed.tool_params),
                                        Some(SendTimeout))
         IN  [send |-> IF step.delivered = << >>
                       THEN [routed EXCEPT !.pc = "awaiting"]
                       ELSE send_return(routed,
                                format_spoonos_result(step.delivered[1],
                                                      routed.intent)),
              executes |-> TRUE,
              step |-> step]

\* SpoonOSIntegration.send_intent up to its return or its suspension in
\* execute_tool: the fallback when not connected; otherwise the routing and
\* the start of the execute_tool call, `step`.
send_intent_begin(integ, reg, isInit, intent) ==
    IF ~integ.is_connected \/ ~integ.agent
    THEN [send |-> send_return([IdleSend EXCEPT !.intent = intent,
                                                !.given = intent],
                               fallback_response(intent)),
          executes |-> FALSE,
          step |-> Step(IdleFrame, << >>)]
    ELSE LET routed == route_intent(intent)
             step == execute_tool_begin(reg, isInit, routed.tool_name,
                                        Some(routed.tool_params),
                                        Some(SendTimeout))
         IN  [send |-> IF step.delivered = << >>
                       THEN [routed EXCEPT !.pc = "awaiting"]
                       ELSE send_return(routed,
                                format_spoonos_result(step.delivered[1],
                                                      routed.intent)),
              executes |-> TRUE,
              step |-> step]

\* send_intent once its execute_tool call has returned `result`
send_intent_resume(send, result) ==
    send_return(send, format_spoonos_result(result, send.intent))

(***************************************************************************)
(* UserAgent (src/userAgent/agent.py).  The language model, the ReAct      *)
(* agent and the tools are the environment: what they return or raise is   *)
(* its choice.  A session's SimpleConversationMemory is its list of        *)
(* messages; UserAgent.sessions is a dict from session id to that list.    *)
(***************************************************************************)
\* Op of the value of e, which is worked out once.
Apply(Op(_), e) == CHOOSE r \in {Op(x) : x \in {e}} : TRUE

Whitespace == {" ", "\n", "\t"}

\* str.strip()
RECURSIVE str_lstrip(_)
str_lstrip(s) ==
    IF s # "" /\ SubSeq(s, 1, 1) \in Whitespace
    THEN str_lstrip(SubSeq(s, 2, Len(s))) ELSE s

RECURSIVE str_rstrip(_)
str_rstrip(s) ==
    IF s # "" /\ SubSeq(s, Len(s), Len(s)) \in Whitespace
    THEN str_rstrip(SubSeq(s, 1, Len(s) - 1)) ELSE s

str_strip(s) == str_rstrip(str_lstrip(s))

\* process_query's web3_keywords
web3_keywords ==
    <<"eth", "btc", "token", "price", "balance", "swap", "gas", "wallet",
      "address", "crypto", "defi", "nft", "blockchain", "transaction", "ohlcv",
      "kline", "candles", "chart", "binance", "usdt", "usdc", "uniswap",
      "contract", "transfer">>

\* any(keyword in user_input.lower() for keyword in web3_keywords)
is_web3_query(user_input) ==
    \E lowered \in {str_lower(user_input)} :
        \E i \in 1..Len(web3_keywords) : str_in(web3_keywords[i], lowered)

\* SimpleConversationMemory(): no messages
SimpleConversationMemory == << >>

\* Mutant of save_context: the new entry replaces the list.
save_context_replaces(messages, inputs, outputs) ==
    <<[input |-> dict_get(inputs, "input", ""),
       output |-> dict_get(outputs, "output", "")]>>

\* SimpleConversationMemory.save_context
save_context(messages, inputs, outputs) ==
    Append(messages, [input |-> dict_get(inputs, "input", ""),
                      output |-> dict_get(outputs, "output", "")])

\* UserAgent.get_session_memory: the sessions dict after the call (the
\* session's memory is its entry)
get_session_memory(sess, session_id) ==
    IF session_id \in DOMAIN sess THEN sess
    ELSE [k \in DOMAIN sess \cup {session_id} |->
            IF k = session_id THEN SimpleConversationMemory ELSE sess[k]]

\* UserAgent._update_session_memory
update_session_memory(sess, session_id, user_input, response) ==
    LET created == get_session_memory(sess, session_id)
    IN  [created EXCEPT ![session_id] =
            save_context(@, [input |-> user_input], [output |-> response])]

\* re.search(r'\{.*\}', result).group(): from the leftmost "{" that has a
\* "}" after it on its line, to the last such "}"; None when there is none
re_search_braces(result) ==
    LET At(ch) == {i \in 1..Len(result) : SubSeq(result, i, i) = ch}
        OneLine(i, j) == \A k \in At("\n") : k < i \/ k > j
    IN  Apply(LAMBDA spans :
                IF spans = {} THEN None
                ELSE LET first == CHOOSE a \in spans :
                                      \A b \in spans :
                                          \/ a[1] < b[1]
                                          \/ (a[1] = b[1] /\ a[2] >= b[2])
                     IN  Some(SubSeq(result, first[1], first[2])),
              {<<i, j>> \in At("{") \X At("}") : i < j /\ OneLine(i, j)})

\* UserAgent._basic_format_cleanup
basic_format_cleanup(raw_result) ==
    LET Meaningful(json_match) ==
            IF str_in("ToolResult", raw_result) /\ json_match # None
            THEN json_match[1] ELSE raw_result
        Marked(result) ==
            Apply(LAMBDA lowered :
                    IF str_in("price", lowered) THEN ":heavy_dollar_sign: " \o result
                    ELSE IF str_in("balance", lowered) THEN ":moneybag: " \o result
                    ELSE IF str_in("error", lowered) THEN ":x: " \o result
                    ELSE ":white_check_mark: " \o result,
                  str_lower(result))
    IN  Apply(Marked, Apply(Meaningful, re_search_braces(raw_result)))

\* What an awaited call of the environment did: returned a text or raised
\* an Exception with a text.
Returned(content) == [by |-> "return", content |-> content]
Raised(text) == [by |-> "raise", content |-> text]

\* UserAgent._format_spoonos_result after its `await self.llm.ainvoke(..)`
format_react_result(raw_result, llm) ==
    IF llm.by = "return" THEN str_strip(llm.content)
    ELSE basic_format_cleanup(raw_result)

\* _extract_web3_query after its `await self.llm.ainvoke(prompt)`; the bare
\* except gives the input back
extract_web3_query(user_input, llm) ==
    IF llm.by = "return" THEN str_strip(llm.content) ELSE user_input

\* _fallback_to_current_approach: the Intent it builds
fallback_intent(query) == Intent("general_web3", [query |-> query])

\* _fallback_to_current_approach: what it returns for the response
fallback_output(spoonos_response) ==
    IF spoonos_response.success THEN spoonos_response.output
    ELSE ":x: " \o spoonos_response.output

\* process_query's `except Exception as e:` return value
process_query_error(text) ==
    "I encountered an issue processing your request: " \o text

\* UserAgent.__init__ in a process where the ReAct agent can be built
\* ("react"), where `from spoonOS.agent import ..` raises ("no_spoonos"),
\* where `from spoon_ai.agents import ..` raises ("no_spoon_ai"), or where
\* OPENAI_API_KEY is not set ("no_key").
ReactEnvironments == {"react", "no_spoonos", "no_spoon_ai", "no_key"}
UserAgent(env) ==
    [spoonos_initialized |-> FALSE, react_agent |-> FALSE, env |-> env]

\* The frame of a process_query call.  pc is idle, extracting (suspended in
\* _extract_web3_query's llm call), reacting (in _react_agent.run),
\* formatting (in _format_spoonos_result's llm call), executing (in the
\* tool of the fallback's send_intent), chatting (in _handle_general_chat's
\* llm call) or returned.  `send` and `call` are the frames of the
\* fallback's send_intent and execute_tool calls; `path` and `normal`
\* (returned by `return response`, not by the except clause) are history.
IdleQuery ==
    [pc |-> "idle", user_input |-> "", session_id |-> "", query |-> "",
     raw_result |-> "", send |-> IdleSend, call |-> IdleFrame, path |-> "",
     response |-> None, normal |-> FALSE]

\* The state a step of process_query leaves: the call's frame, the sessions
\* dict and the UserAgent's fields.
QueryStep(q, sess, usr) == [query |-> q, sessions |-> sess, user |-> usr]

\* process_query from a response in hand:
\* `self._update_session_memory(session_id, user_input, response)` and
\* `return response`
process_query_return(q, sess, usr, response) ==
    QueryStep([q EXCEPT !.pc = "returned", !.response = Some(response),
                        !.normal = TRUE],
              update_session_memory(sess, q.session_id, q.user_input, response),
              usr)

\* process_query's except clause: the message is returned, the session
\* memory is not updated
process_query_raised(q, sess, usr, text) ==
    QueryStep([q EXCEPT !.pc = "returned",
                        !.response = Some(process_query_error(text))],
              sess, usr)

\* _fallback_to_current_approach up to the return or the suspension of its
\* process_intent call (SpoonOSInterface.process_intent is send_intent)
fallback_to_current_approach(q, sess, usr, integ, reg, isInit, query) ==
    LET Sent(begun) ==
            [q EXCEPT !.path = "fallback", !.query = query,
                      !.send = begun.send,
                      !.call = IF begun.executes THEN begun.step.frame
                               ELSE IdleFrame]
    IN  Apply(LAMBDA begun :
                IF begun.send.pc = "returned"
                THEN Apply(LAMBDA sent :
                             process_query_return(
                                 sent, sess, usr,
                                 fallback_output(begun.send.response[1])),
                           Sent(begun))
                ELSE QueryStep([Sent(begun) EXCEPT !.pc = "executing"], sess, usr),
              send_intent_begin(integ, reg, isInit, fallback_intent(query)))

\* The fallback's execute_tool call delivers `step`: send_intent formats the
\* result and process_query returns.
fallback_resume(q, sess, usr, step, how) ==
    Apply(LAMBDA send :
            process_query_return(
                [q EXCEPT !.send = send, !.call = [step.frame EXCEPT !.how = how]],
                sess, usr, fallback_output(send.response[1])),
          send_intent_resume(q.send, step.delivered[1]))

\* _send_to_spoonos_react up to its first suspension, the providers of the
\* local SpoonOSAgent behaving as beh: an ImportError, an exception of
\* tool_agent.initialize and a missing key lead to the fallback; else the
\* ReAct agent (made on the first call) is run.
send_to_spoonos_react(q, sess, usr, integ, reg, isInit, query, beh) ==
    LET tool_agent == initialize(NewRegistry, FALSE, 0,
                                 Some(IntegrationCategories), beh)
        asked == [q EXCEPT !.query = query]
    IN  IF usr.env \in {"no_spoonos", "no_spoon_ai"}
        THEN fallback_to_current_approach(asked, sess, usr, integ, reg, isInit, query)
        ELSE IF ~usr.react_agent /\ (tool_agent.raised \/ usr.env = "no_key")
        THEN fallback_to_current_approach(asked, sess, usr, integ, reg, isInit, query)
        ELSE QueryStep([asked EXCEPT !.pc = "reacting", !.path = "react"], sess,
                       [usr EXCEPT !.react_agent = TRUE])

\* process_query from its call to its first suspension, initialize_spoonos
\* done: both branches call get_session_memory and then await the llm.
process_query_begin(q, sess, usr, user_input, session_id) ==
    LET called == [q EXCEPT !.user_input = user_input, !.session_id = session_id]
    IN  QueryStep(IF is_web3_query(user_input)
                  THEN [called EXCEPT !.pc = "extracting"]
                  ELSE [called EXCEPT !.pc = "chatting", !.path = "chat"],
                  get_session_memory(sess, session_id), usr)

(***************************************************************************)
(* The state machine.                                                      *)
(***************************************************************************)
DefaultTimeout == 300   \* timeout: Optional[float] = 30.0

\* The execute_tool calls followed.
CallIds == {"call"}

ExtraNames == {"custom_tool"}
AllNames == UNION {Range(CategoryTools(c)) : c \in Categories} \cup ExtraNames

\* Inputs of initialize: tool_categories is None or a list of categories.
Requests ==
    {None, Some(<< >>),
     Some(<<"crypto_data", "crypto_evm">>), Some(<<"crypto_evm", "crypto_data">>),
     Some(ToolCategory)}
ExecRequests == {None, Some(<<"crypto_data", "crypto_evm">>)}

\* Inputs of direct register_tool calls.
RegisterNames == {"get_token_price", "custom_tool"}
ExecRegisterCategories == {"crypto_data", "crypto_evm"}

\* Inputs of execute_tool.
ExecuteNames == {"get_token_price", "evm_balance", "custom_tool"}
Parameters == {None, Some([symbol |-> "ETH-USDC"])}
Timeouts == {None, Some(DefaultTimeout), Some(1)}

\* Inputs of execute_batch: a command with parameters and no "timeout", one
\* with a short timeout, and one that names no registered tool.
BatchCommandSet ==
    {Command("get_token_price", Some([symbol |-> "ETH-USDC"]), FALSE, None),
     Command("get_24h_stats", None, TRUE, Some(1)),
     Command("custom_tool", None, TRUE, None)}
BatchCommands == UNION {[1..k -> BatchCommandSet] : k \in 0..MaxBatch}
BatchRequests == {None}
BatchReturnObjects ==
    {ReturnObject(FALSE, None, FALSE, None, Some("42")),
     ReturnObject(TRUE, None, TRUE, Some("bad input"), None)}

\* Inputs of the routing: actions of the table and others, and parameter
\* dicts with any of six keys.
Optional(S) == {None} \cup {Some(x) : x \in S}
FromOptional(r) == [k \in {x \in DOMAIN r : r[x] # None} |-> r[k][1]]

RouteActions ==
    {"check_balance", "get_token_price", "get_kline", "get_ohlcv", "market_data",
     "wallet_balance_lookup", "My_Balance", "PRICE_CHECK", "balance_price",
     "general_web3", ""}
RouteParameters ==
    {FromOptional([token |-> t, symbol |-> s, address |-> a,
                   wallet_address |-> w, vs_currency |-> v, interval |-> i]) :
        t \in Optional({"ETH", "ethereum", "btc", "sol"}),
        s \in Optional({"eth", "BTC-USDT", "ETH/USDT"}),
        a \in Optional({"0xabc"}), w \in Optional({"0xdef"}),
        v \in Optional({"usd"}), i \in Optional({"4h"})}

\* Inputs of send_intent.
SendActions ==
    {"get_token_price", "check_balance", "swap_tokens", "get_kline", "general_web3"}
SendParameters ==
    {EmptyDict, [token |-> "ETH"], [address |-> "0xabc"],
     [wallet_address |-> "0xdef", token |-> "ETH"],
     [symbol |-> "ETH/USDT", interval |-> "4h"]}

\* Inputs of process_query and what its environment answers.
QueryIds == 1..MaxQueries
UserInputs ==
    {"What's the current price of ETH?",
     "Check my wallet balance for address 0x742d35Cc6634C0532925a3b844Bc454e4438f44e",
     "How much gas would it cost to swap 1 ETH for USDC?",
     "Hi, how are you doing today?"}
SessionInputs ==
    {"What's the current price of ETH?", "Hi, how are you doing today?"}
SessionIds == {"default", "alice"}
LlmOutcomes == {Returned(" ETH is at $2,500 \n"), Raised("overloaded")}
ReactOutcomes == {Returned("ToolResult({'eth': 2.5})"), Raised("max iterations")}
QueryReturnObjects ==
    {ReturnObject(TRUE, Some("out"), TRUE, None, None),
     ReturnObject(TRUE, None, TRUE, Some("bad input"), None)}
UserBehaviours ==
    {[c \in Range(IntegrationCategories) |-> ProviderOk],
     [c \in Range(IntegrationCategories) |->
        IF c = "crypto_evm" THEN ProviderImportError ELSE ProviderOk]}

NoRegistration ==
    [count |-> 0, inst |-> NoneInstance, cat |-> "", cats |-> {},
     rank |-> 0, ranks |-> [c \in Categories |-> 0]]

\* History of register_tool calls: how many for the name (counted up to 2),
\* the instance and category of the latest, every category used, and the
\* name's rank among the names by first registration, overall (rank) and
\* within each category (ranks).
RECURSIVE Recorded(_, _, _)
Recorded(h, log, i) ==
    IF i > Len(log) THEN h
    ELSE Recorded([h EXCEPT ![log[i].name] =
                        [count |-> Min(@.count + 1, 2),
                         inst |-> log[i].inst,
                         cat |-> log[i].cat,
                         cats |-> @.cats \cup {log[i].cat},
                         rank |-> IF @.count > 0 THEN @.rank
                                  ELSE 1 + Cardinality({n \in DOMAIN h :
                                                          h[n].count > 0}),
                         ranks |-> IF log[i].cat \in @.cats THEN @.ranks
                                   ELSE [@.ranks EXCEPT ![log[i].cat] =
                                           1 + Cardinality({n \in DOMAIN h :
                                                 log[i].cat \in h[n].cats})]]],
                  log, i + 1)

\* A new SpoonOSAgent with no execute_tool call made.
AgentInit ==
    /\ registry = NewRegistry
    /\ initialized = FALSE
    /\ constructed = 0
    /\ calls = [c \in CallIds |-> IdleFrame]
    /\ results = [c \in CallIds |-> << >>]
    /\ regHist = [n \in AllNames |-> NoRegistration]
    /\ hist = [ops |-> 0, noop |-> FALSE, ran |-> FALSE, given |-> None,
               requested |-> << >>, faulty |-> {}, raised |-> FALSE]

\* A UserAgent of which no process_query call has been made.
UserAgentInit(environments) ==
    /\ user \in {UserAgent(env) : env \in environments}
    /\ sessions = << >>
    /\ queries = [id \in QueryIds |-> IdleQuery]

Init ==
    /\ AgentInit
    /\ health = None
    /\ batch = IdleBatch
    /\ integration = SpoonOSIntegration(TRUE)
    /\ sends = IdleSend
    /\ UserAgentInit({"react"})

\* await agent.initialize(tool_categories), the providers behaving as beh.
\* A call on an initialized agent is always possible; a call that runs the
\* registration counts against the budget.
Initialize(requests, budget) ==
    /\ initialized \/ hist.ops < budget
    /\ \E tool_categories \in requests :
         \E beh \in ProviderChoices(Range(categories_to_init(tool_categories))) :
            LET st == initialize(registry, initialized, constructed,
                                 tool_categories, beh)
            IN  /\ registry' = st.registry
                /\ initialized' = st.initialized
                /\ constructed' = st.constructed
                /\ regHist' = Recorded(regHist, st.log, 1)
                /\ hist' = IF initialized
                           THEN [hist EXCEPT !.noop = TRUE]
                           ELSE [ops |-> hist.ops + 1,
                                 noop |-> FALSE,
                                 ran |-> TRUE,
                                 given |-> tool_categories,
                                 requested |-> categories_to_init(tool_categories),
                                 faulty |-> {c \in DOMAIN beh : beh[c] # ProviderOk},
                                 raised |-> st.raised]
    /\ UNCHANGED <<calls, results>>
    /\ UNCHANGED layerVars
    /\ UNCHANGED userVars

\* agent.registry.register_tool(tool_name, tool_instance, category)
Register(categories, budget) ==
    /\ hist.ops < budget
    /\ \E tool_name \in RegisterNames, tool_instance \in UserInstances,
          category \in categories :
            /\ registry' = register_tool(registry, tool_name, tool_instance, category)
            /\ regHist' = Recorded(regHist,
                                   <<RegCall(tool_name, tool_instance, category)>>, 1)
    /\ hist' = [hist EXCEPT !.ops = @ + 1]
    /\ UNCHANGED <<initialized, constructed, calls, results>>
    /\ UNCHANGED layerVars
    /\ UNCHANGED userVars

\* await agent.execute_tool(tool_name, parameters, timeout), up to its
\* return or its suspension in wait_for
Execute ==
    \E c \in CallIds, tool_name \in ExecuteNames,
       parameters \in Parameters, timeout \in Timeouts :
        /\ calls[c].pc = "idle"
        /\ LET step == execute_tool_begin(registry, initialized, tool_name,
                                          parameters, timeout)
           IN  /\ calls' = [calls EXCEPT ![c] = step.frame]
               /\ results' = [results EXCEPT ![c] = @ \o step.delivered]
        /\ UNCHANGED <<registry, initialized, constructed, regHist, hist>>
        /\ UNCHANGED layerVars
    /\ UNCHANGED userVars

\* The tool invocation completes by returning an object.
ToolReturns ==
    \E c \in CallIds, obj \in ReturnObjects :
        /\ calls[c].task = "running"
        /\ LET step == wait_for_returned(calls[c], obj)
           IN  /\ calls' = [calls EXCEPT ![c] =
                              [step.frame EXCEPT !.how = HowReturned(obj)]]
               /\ results' = [results EXCEPT ![c] = @ \o step.delivered]
        /\ UNCHANGED <<registry, initialized, constructed, regHist, hist>>
        /\ UNCHANGED layerVars
    /\ UNCHANGED userVars

\* The tool invocation completes by raising an exception.
ToolRaises ==
    \E c \in CallIds, exc \in ExceptionClasses, text \in ExceptionTexts :
        /\ calls[c].task = "running"
        /\ LET step == wait_for_raised(calls[c], exc, text)
           IN  /\ calls' = [calls EXCEPT ![c] =
                              [step.frame EXCEPT !.how = How("raise", exc, text)]]
               /\ results' = [results EXCEPT ![c] = @ \o step.delivered]
        /\ UNCHANGED <<registry, initialized, constructed, regHist, hist>>
        /\ UNCHANGED layerVars
    /\ UNCHANGED userVars

\* The timeout of wait_for elapses before the invocation has completed.
\* With timeout=None wait_for sets no timer.
TimerFires(c) ==
    /\ calls[c].pc = "awaiting"
    /\ calls[c].timeout # None
    /\ LET step == wait_for_timeout(calls[c])
       IN  /\ calls' = [calls EXCEPT ![c] =
                          [step.frame EXCEPT !.how = How("timer", "", "")]]
           /\ results' = [results EXCEPT ![c] = @ \o step.delivered]
    /\ UNCHANGED <<registry, initialized, constructed, regHist, hist>>
    /\ UNCHANGED layerVars
    /\ UNCHANGED userVars

TimerFiresAny == \E c \in CallIds : TimerFires(c)

\* await agent.execute_batch(commands, parallel), up to its first
\* suspension or its return
ExecuteBatch ==
    /\ batch.pc = "idle"
    /\ \E commands \in BatchCommands, parallel \in BOOLEAN :
          batch' = execute_batch_begin(commands, parallel, registry, initialized)
    /\ UNCHANGED <<registry, initialized, constructed, calls, results,
                   regHist, hist, health, integration, sends>>
    /\ UNCHANGED userVars

\* The tool invocation of command i completes by returning an object.
BatchToolReturns ==
    /\ \E i \in 1..Len(batch.frames), obj \in BatchReturnObjects :
          /\ batch.frames[i].task = "running"
          /\ batch' = batch_resume(batch, i,
                                   wait_for_returned(batch.frames[i], obj),
                                   HowReturned(obj), registry, initialized)
    /\ UNCHANGED <<registry, initialized, constructed, calls, results,
                   regHist, hist, health, integration, sends>>
    /\ UNCHANGED userVars

\* The tool invocation of command i completes by raising an exception.
BatchToolRaises ==
    /\ \E i \in 1..Len(batch.frames),
          exc \in ExceptionClasses, text \in ExceptionTexts :
          /\ batch.frames[i].task = "running"
          /\ batch' = batch_resume(batch, i,
                                   wait_for_raised(batch.frames[i], exc, text),
                                   How("raise", exc, text), registry, initialized)
    /\ UNCHANGED <<registry, initialized, constructed, calls, results,
                   regHist, hist, health, integration, sends>>
    /\ UNCHANGED userVars

\* The timeout of command i's wait_for elapses before its invocation has
\* completed.
BatchTimerFires ==
    /\ \E i \in 1..Len(batch.frames) :
          /\ batch.frames[i].pc = "awaiting"
          /\ batch.frames[i].timeout # None
          /\ batch' = batch_timeout(batch, i, registry, initialized)
    /\ UNCHANGED <<registry, initialized, constructed, calls, results,
                   regHist, hist, health, integration, sends>>
    /\ UNCHANGED userVars

\* Every task of the parallel branch is done: gather hands back its list
\* and execute_batch returns it.
GatherReturns ==
    /\ batch.pc = "running"
    /\ batch.parallel
    /\ \A i \in 1..Len(batch.frames) : batch.frames[i].pc \in {"returned", "raised"}
    /\ batch' = [batch EXCEPT !.pc = "returned", !.out = gather(batch)]
    /\ UNCHANGED <<registry, initialized, constructed, calls, results,
                   regHist, hist, health, integration, sends>>
    /\ UNCHANGED userVars

\* await integration.initialize(), the providers behaving as beh
IntegrationInitialize ==
    /\ sends.pc = "idle"
    /\ hist.ops < MaxConnect
    /\ \E beh \in ProviderChoices(Range(IntegrationCategories)) :
          LET done == integration_initialize(integration, registry, initialized,
                                             constructed, beh)
          IN  /\ integration' = done.integration
              /\ registry' = done.state.registry
              /\ initialized' = done.state.initialized
              /\ constructed' = done.state.constructed
              /\ regHist' = IF integration.available
                            THEN Recorded([n \in AllNames |-> NoRegistration],
                                          done.state.log, 1)
                            ELSE regHist
              /\ hist' = IF integration.available
                         THEN [ops |-> hist.ops + 1,
                               noop |-> FALSE,
                               ran |-> TRUE,
                               given |-> Some(IntegrationCategories),
                               requested |-> IntegrationCategories,
                               faulty |-> {c \in DOMAIN beh : beh[c] # ProviderOk},
                               raised |-> done.state.raised]
                         ELSE [hist EXCEPT !.ops = @ + 1]
    /\ UNCHANGED <<calls, results, health, batch, sends>>
    /\ UNCHANGED userVars

\* await integration.send_intent(intent), up to its return or its suspension
SendIntent ==
    /\ sends.pc = "idle"
    /\ \E action \in SendActions, parameters \in SendParameters :
          LET begun == send_intent_begin(integration, registry, initialized,
                                         Intent(action, parameters))
          IN  /\ sends' = begun.send
              /\ calls' = IF begun.executes
                          THEN [calls EXCEPT !["call"] = begun.step.frame]
                          ELSE calls
              /\ results' = IF begun.executes
                            THEN [results EXCEPT !["call"] = @ \o begun.step.delivered]
                            ELSE results
    /\ UNCHANGED <<registry, initialized, constructed, regHist, hist,
                   health, batch, integration>>
    /\ UNCHANGED userVars

\* The tool invocation of the send_intent call completes by returning an
\* object; execute_tool returns and send_intent formats the result.
SendToolReturns ==
    /\ sends.pc = "awaiting"
    /\ calls["call"].task = "running"
    /\ \E obj \in ReturnObjects :
          LET step == wait_for_returned(calls["call"], obj)
          IN  /\ calls' = [calls EXCEPT !["call"] =
                             [step.frame EXCEPT !.how = HowReturned(obj)]]
              /\ results' = [results EXCEPT !["call"] = @ \o step.delivered]
              /\ sends' = send_intent_resume(sends, step.delivered[1])
    /\ UNCHANGED <<registry, initialized, constructed, regHist, hist,
                   health, batch, integration>>
    /\ UNCHANGED userVars

\* The tool invocation of the send_intent call completes by raising.
SendToolRaises ==
    /\ sends.pc = "awaiting"
    /\ calls["call"].task = "running"
    /\ \E exc \in ExceptionClasses, text \in ExceptionTexts :
          LET step == wait_for_raised(calls["call"], exc, text)
          IN  /\ calls' = [calls EXCEPT !["call"] =
                             [step.frame EXCEPT !.how = How("raise", exc, text)]]
              /\ results' = [results EXCEPT !["call"] = @ \o step.delivered]
              /\ sends' = send_intent_resume(sends, step.delivered[1])
    /\ UNCHANGED <<registry, initialized, constructed, regHist, hist,
                   health, batch, integration>>
    /\ UNCHANGED userVars

\* The 30 seconds of the send_intent call's execute_tool elapse.
SendTimerFires ==
    /\ sends.pc = "awaiting"
    /\ calls["call"].pc = "awaiting"
    /\ calls["call"].timeout # None
    /\ LET step == wait_for_timeout(calls["call"])
       IN  /\ calls' = [calls EXCEPT !["call"] =
                          [step.frame EXCEPT !.how = How("timer", "", "")]]
           /\ results' = [results EXCEPT !["call"] = @ \o step.delivered]
           /\ sends' = send_intent_resume(sends, step.delivered[1])
    /\ UNCHANGED <<registry, initialized, constructed, regHist, hist,
                   health, batch, integration>>
    /\ UNCHANGED userVars

\* send_intent's routing of an intent (on a connected integration, before
\* the tool is executed)
Route ==
    /\ sends.pc = "idle"
    /\ \E action \in RouteActions, parameters \in RouteParameters :
          sends' = route_intent(Intent(action, parameters))
    /\ UNCHANGED <<registry, initialized, constructed, calls, results,
                   regHist, hist, health, batch, integration>>
    /\ UNCHANGED userVars

\* await agent.health_check()
HealthCheck ==
    /\ health' = Some(health_check(registry, initialized))
    /\ UNCHANGED <<registry, initialized, constructed, calls, results,
                   regHist, hist, batch, integration, sends>>
    /\ UNCHANGED userVars

\* UserAgent.initialize_spoonos: SpoonOSIntegration.initialize is called
\* unless an earlier call of it returned True.
initialize_spoonos(usr, integ, reg, isInit, count, beh) ==
    IF usr.spoonos_initialized
    THEN [user |-> usr, integration |-> integ,
          state |-> InitState(reg, isInit, count), ran |-> FALSE]
    ELSE LET done == integration_initialize(integ, reg, isInit, count, beh)
         IN  [user |-> [usr EXCEPT !.spoonos_initialized = done.returned],
              integration |-> done.integration,
              state |-> done.state,
              ran |-> integ.available]

\* await user_agent.process_query(user_input, session_id), up to its first
\* suspension: initialize_spoonos (which does not suspend), the keyword
\* test, and the branch taken up to its llm call.
ProcessQuery(ids, inputs) ==
    /\ \E id \in ids, user_input \in inputs, session_id \in SessionIds,
          beh \in UserBehaviours :
          /\ queries[id].pc = "idle"
          /\ \A j \in 1..(id - 1) : queries[j].pc # "idle"
          /\ \E done \in {initialize_spoonos(user, integration, registry,
                                               initialized, constructed, beh)} :
             \E begun \in {process_query_begin(queries[id], sessions, done.user,
                                                user_input, session_id)} :
                 /\ integration' = done.integration
                 /\ registry' = done.state.registry
                 /\ initialized' = done.state.initialized
                 /\ constructed' = done.state.constructed
                 /\ regHist' = IF done.ran
                               THEN Recorded([n \in AllNames |-> NoRegistration],
                                             done.state.log, 1)
                               ELSE regHist
                 /\ hist' = IF done.ran
                            THEN [ops |-> hist.ops + 1,
                                  noop |-> FALSE,
                                  ran |-> TRUE,
                                  given |-> Some(IntegrationCategories),
                                  requested |-> IntegrationCategories,
                                  faulty |-> {c \in DOMAIN beh : beh[c] # ProviderOk},
                                  raised |-> done.state.raised]
                            ELSE hist
                 /\ queries' = [queries EXCEPT ![id] = begun.query]
                 /\ sessions' = begun.sessions
                 /\ user' = begun.user
    /\ UNCHANGED <<calls, results, health, batch, sends>>

\* The llm call of _extract_web3_query completes; _send_to_spoonos_react
\* runs up to its suspension or, through the fallback, to the return.
ExtractCompletes ==
    /\ \E id \in QueryIds, llm \in LlmOutcomes, beh \in UserBehaviours :
          /\ queries[id].pc = "extracting"
          /\ \E query \in {extract_web3_query(queries[id].user_input, llm)} :
             \E next \in {send_to_spoonos_react(
                              queries[id], sessions, user, integration, registry,
                              initialized, query, beh)} :
                 /\ queries' = [queries EXCEPT ![id] = next.query]
                 /\ sessions' = next.sessions
                 /\ user' = next.user
    /\ UNCHANGED <<registry, initialized, constructed, calls, results,
                   regHist, hist, health, batch, integration, sends>>

\* `await self._react_agent.run(query)` completes: a result goes to
\* _format_spoonos_result, an exception to the fallback.
ReactCompletes ==
    /\ \E id \in QueryIds, react \in ReactOutcomes :
          /\ queries[id].pc = "reacting"
          /\ \E q \in {queries[id]} :
             \E next \in {IF react.by = "return"
                           THEN QueryStep([q EXCEPT !.pc = "formatting",
                                                    !.raw_result = react.content],
                                          sessions, user)
                           ELSE fallback_to_current_approach(
                                    q, sessions, user, integration, registry,
                                    initialized, q.query)} :
                 /\ queries' = [queries EXCEPT ![id] = next.query]
                 /\ sessions' = next.sessions
                 /\ user' = next.user
    /\ UNCHANGED <<registry, initialized, constructed, calls, results,
                   regHist, hist, health, batch, integration, sends>>

\* The llm call of _format_spoonos_result completes; process_query returns.
FormatCompletes ==
    /\ \E id \in QueryIds, llm \in LlmOutcomes :
          /\ queries[id].pc = "formatting"
          /\ \E response \in {format_react_result(queries[id].raw_result, llm)} :
             \E next \in {process_query_return(queries[id], sessions, user,
                                                response)} :
                 /\ queries' = [queries EXCEPT ![id] = next.query]
                 /\ sessions' = next.sessions
                 /\ user' = next.user
    /\ UNCHANGED <<registry, initialized, constructed, calls, results,
                   regHist, hist, health, batch, integration, sends>>

\* The llm call of _handle_general_chat completes; process_query returns the
\* content, or its except clause returns the message.
ChatCompletes ==
    /\ \E id \in QueryIds, llm \in LlmOutcomes :
          /\ queries[id].pc = "chatting"
          /\ \E q \in {queries[id]} :
             \E next \in {IF llm.by = "return"
                           THEN process_query_return(q, sessions, user, llm.content)
                           ELSE process_query_raised(q, sessions, user,
                                                     llm.content)} :
                 /\ queries' = [queries EXCEPT ![id] = next.query]
                 /\ sessions' = next.sessions
                 /\ user' = next.user
    /\ UNCHANGED <<registry, initialized, constructed, calls, results,
                   regHist, hist, health, batch, integration, sends>>

\* The tool of the fallback's send_intent call returns an object.
FallbackToolReturns ==
    /\ \E id \in QueryIds, obj \in QueryReturnObjects :
          /\ queries[id].pc = "executing"
          /\ \E step \in {wait_for_returned(queries[id].call, obj)} :
             \E next \in {fallback_resume(queries[id], sessions, user, step,
                                           HowReturned(obj))} :
                 /\ queries' = [queries EXCEPT ![id] = next.query]
                 /\ sessions' = next.sessions
                 /\ user' = next.user
    /\ UNCHANGED <<registry, initialized, constructed, calls, results,
                   regHist, hist, health, batch, integration, sends>>

\* The tool of the fallback's send_intent call raises.
FallbackToolRaises ==
    /\ \E id \in QueryIds, exc \in ExceptionClasses, text \in ExceptionTexts :
          /\ queries[id].pc = "executing"
          /\ \E step \in {wait_for_raised(queries[id].call, exc, text)} :
             \E next \in {fallback_resume(queries[id], sessions, user, step,
                                           How("raise", exc, text))} :
                 /\ queries' = [queries EXCEPT ![id] = next.query]
                 /\ sessions' = next.sessions
                 /\ user' = next.user
    /\ UNCHANGED <<registry, initialized, constructed, calls, results,
                   regHist, hist, health, batch, integration, sends>>

\* The 30 seconds of the fallback's execute_tool call elapse.
FallbackTimerFires ==
    /\ \E id \in QueryIds :
          /\ queries[id].pc = "executing"
          /\ queries[id].call.timeout # None
          /\ \E step \in {wait_for_timeout(queries[id].call)} :
             \E next \in {fallback_resume(queries[id], sessions, user, step,
                                           How("timer", "", ""))} :
                 /\ queries' = [queries EXCEPT ![id] = next.query]
                 /\ sessions' = next.sessions
                 /\ user' = next.user
    /\ UNCHANGED <<registry, initialized, constructed, calls, results,
                   regHist, hist, health, batch, integration, sends>>

(***************************************************************************)
(* Spec: the registry under initialize and direct register_tool calls.     *)
(***************************************************************************)
Next ==
    \/ Initialize(Requests, MaxOps)
    \/ Register(Categories, MaxOps)

Spec == Init /\ [][Next]_vars

(***************************************************************************)
(* ExecSpec: one execute_tool call on an agent set up by initialize and    *)
(* register_tool calls, which may also come while the call is suspended.   *)
(* ExecFairSpec: the event loop runs a timer that is due; nothing makes a  *)
(* tool complete.                                                          *)
(***************************************************************************)
ExecNext ==
    \/ Initialize(ExecRequests, MaxSetup)
    \/ Register(ExecRegisterCategories, MaxSetup)
    \/ Execute
    \/ ToolReturns
    \/ ToolRaises
    \/ TimerFiresAny

ExecSpec == Init /\ [][ExecNext]_vars

ExecFairSpec == ExecSpec /\ \A c \in CallIds : WF_vars(TimerFires(c))

(***************************************************************************)
(* HealthSpec: health_check calls between initialize and register_tool     *)
(* calls.                                                                  *)
(***************************************************************************)
HealthNext ==
    \/ Initialize(ExecRequests, MaxSetup)
    \/ Register(ExecRegisterCategories, MaxSetup)
    \/ HealthCheck

HealthSpec == Init /\ [][HealthNext]_vars

(***************************************************************************)
(* BatchSpec: one execute_batch call on an agent that initialize calls     *)
(* have set up (or failed to).                                             *)
(***************************************************************************)
BatchNext ==
    \/ (batch.pc = "idle" /\ Initialize(BatchRequests, MaxSetup))
    \/ ExecuteBatch
    \/ BatchToolReturns
    \/ BatchToolRaises
    \/ BatchTimerFires
    \/ GatherReturns

BatchSpec == Init /\ [][BatchNext]_vars

(***************************************************************************)
(* RouteSpec: the routing of one intent.                                   *)
(***************************************************************************)
RouteNext == Route

RouteSpec == Init /\ [][RouteNext]_vars

(***************************************************************************)
(* IntegrationSpec: one send_intent call on a SpoonOSIntegration, in a     *)
(* process where the agent module was imported or was not, after any       *)
(* initialize calls.                                                       *)
(***************************************************************************)
IntegrationInit ==
    /\ AgentInit
    /\ health = None
    /\ batch = IdleBatch
    /\ integration \in {SpoonOSIntegration(available) : available \in BOOLEAN}
    /\ sends = IdleSend
    /\ UserAgentInit({"react"})

IntegrationNext ==
    \/ IntegrationInitialize
    \/ SendIntent
    \/ SendToolReturns
    \/ SendToolRaises
    \/ SendTimerFires

IntegrationSpec == IntegrationInit /\ [][IntegrationNext]_vars

(***************************************************************************)
(* UserSpec: one process_query call on a UserAgent, for each query of the  *)
(* integration test, in a process where the tool layer and the ReAct agent *)
(* are available or not.  SessionSpec: MaxQueries calls, which may         *)
(* overlap, for two session ids.                                           *)
(***************************************************************************)
UserInit ==
    /\ AgentInit
    /\ health = None
    /\ batch = IdleBatch
    /\ integration \in {SpoonOSIntegration(available) : available \in BOOLEAN}
    /\ sends = IdleSend
    /\ UserAgentInit(ReactEnvironments)

UserNext ==
    \/ ProcessQuery({1}, UserInputs)
    \/ ExtractCompletes
    \/ ReactCompletes
    \/ FormatCompletes
    \/ ChatCompletes
    \/ FallbackToolReturns
    \/ FallbackToolRaises
    \/ FallbackTimerFires

UserSpec == UserInit /\ [][UserNext]_vars

SessionNext ==
    \/ ProcessQuery(QueryIds, SessionInputs)
    \/ ExtractCompletes
    \/ ReactCompletes
    \/ FormatCompletes
    \/ ChatCompletes
    \/ FallbackToolReturns
    \/ FallbackToolRaises
    \/ FallbackTimerFires

SessionSpec == UserInit /\ [][SessionNext]_vars

TypeOK ==
    /\ initialized \in BOOLEAN
    /\ constructed \in Nat
    /\ \A c \in CallIds :
         /\ calls[c].pc \in {"idle", "awaiting", "returned", "raised"}
         /\ calls[c].task \in {"none", "running", "done", "cancelled"}

(***************************************************************************)
(* Reading messages.                                                       *)
(***************************************************************************)
\* The first position of `text` in `message`, 0 when it does not occur.
IndexOf(message, text) ==
    LET hits == {i \in 1..(Len(message) - Len(text) + 1) :
                    SubSeq(message, i, i + Len(text) - 1) = text}
    IN  IF hits = {} THEN 0 ELSE CHOOSE i \in hits : \A j \in hits : i <= j

Contains(message, text) == IndexOf(message, text) > 0

\* `names` lists exactly the registered names, each once.
ListsRegistered(reg, names) ==
    /\ Range(names) = DOMAIN reg.tools
    /\ Cardinality(Range(names)) = Len(names)

Occurrences(s, x) == Cardinality({i \in 1..Len(s) : s[i] = x})

ListedIn(reg, tool_name) ==
    {c \in Categories : tool_name \in Range(reg.categories[c])}

\* The step in which call c is made.
Called(c) == calls[c].pc = "idle" /\ calls'[c].pc # "idle"

(***************************************************************************)
(* C1.  If one requested category's provider raises during registration,   *)
(* initialize still ends with the agent initialized and with the tools of  *)
(* every other requested category in the registry.                         *)
(* The code re-raises: _register_crypto_data_tools raises its ImportError  *)
(* again, _register_category_tools raises every Exception again, and       *)
(* initialize has no handler, so the loop is left and _initialized stays   *)
(* False.                                                                  *)
(***************************************************************************)
C1_PartialFailureResilience ==
    (hist.ran /\ Cardinality(hist.faulty) = 1) =>
        /\ initialized
        /\ \A c \in Range(hist.requested) \ hist.faulty :
              Range(CategoryTools(c)) \subseteq Range(list_tools(registry))

(***************************************************************************)
(* C2.  No step leaves an execute_tool call by an exception; and a call    *)
(* made on an initialized agent with a name that is not registered returns *)
(* at once, having invoked no tool, one result with success false,         *)
(* category "unknown" and a message that lists exactly the registered      *)
(* names.                                                                  *)
(***************************************************************************)
C2_ExecuteUnregistered ==
    [][\A c \in CallIds :
        /\ calls'[c].pc # "raised"
        /\ (Called(c) /\ initialized /\ ~HasKey(registry, calls'[c].tool_name)) =>
              /\ calls'[c].pc = "returned"
              /\ calls'[c].task = "none"
              /\ Len(results'[c]) = 1
              /\ results'[c][1].success = FALSE
              /\ results'[c][1].tool_name = calls'[c].tool_name
              /\ results'[c][1].category = "unknown"
              /\ \E names \in {list_tools(registry)} :
                    /\ ListsRegistered(registry, names)
                    /\ results'[c][1].error =
                          Some("Tool '" \o calls'[c].tool_name
                                  \o "' not found. Available tools: "
                                  \o str_list(names))
      ]_vars

C2_Witness ==
    \E c \in CallIds :
        /\ initialized
        /\ calls[c].pc = "returned"
        /\ ~HasKey(registry, calls[c].tool_name)
        /\ results[c][1].category = "unknown"
        /\ Contains(results[c][1].error[1], "'evm_balance'")

(***************************************************************************)
(* C3.  A call made while the agent is not initialized (never initialized, *)
(* or initialize left by an exception) returns at once one failed result   *)
(* with the not-initialized message, invokes no tool, and changes neither  *)
(* the registry nor the initialized flag.                                  *)
(***************************************************************************)
C3_NotInitialized ==
    [][\A c \in CallIds :
        (Called(c) /\ ~initialized) =>
            /\ calls'[c].pc = "returned"
            /\ calls'[c].task = "none"
            /\ results'[c] =
                  <<[success |-> FALSE, tool_name |-> calls'[c].tool_name,
                     category |-> "unknown", data |-> None,
                     error |-> Some("Agent not initialized. Call initialize() first."),
                     metadata |-> None]>>
            /\ registry' = registry
            /\ initialized' = initialized
      ]_vars

\* the case of an initialize that was left part-way: tools registered, flag unset
C3_Witness ==
    \E c \in CallIds :
        /\ hist.raised
        /\ ~initialized
        /\ HasKey(registry, calls[c].tool_name)
        /\ calls[c].pc = "returned"
        /\ results[c][1].error = Some(NotInitializedError)

(***************************************************************************)
(* C4.  When the tool's invocation raised, the call has returned one       *)
(* failed result with the tool's name, a category the tool is registered   *)
(* in, and a message that carries the text of the tool's exception.        *)
(* The code reports a tool that raises asyncio.TimeoutError through the    *)
(* `except asyncio.TimeoutError` clause: the message is the timed-out      *)
(* message and the tool's text is lost.                                    *)
(***************************************************************************)
C4_ToolFailureReported ==
    \A c \in CallIds :
        calls[c].how.by = "raise" =>
            /\ calls[c].pc = "returned"
            /\ Len(results[c]) = 1
            /\ results[c][1].success = FALSE
            /\ results[c][1].tool_name = calls[c].tool_name
            /\ results[c][1].category \in ListedIn(registry, calls[c].tool_name)
            /\ results[c][1].error # None
            /\ Contains(results[c][1].error[1], calls[c].how.text)

(***************************************************************************)
(* C5.  When the timeout elapses while the call is suspended, the call     *)
(* returns one failed result with the tool's name, a category the tool is  *)
(* registered in, and a message that names the timeout value; the          *)
(* invocation is cancelled, and from then on the call's results never      *)
(* change.                                                                 *)
(* The tool is taken to honour cancellation, as asyncio requires.          *)
(***************************************************************************)
C5_TimeoutReported ==
    [][\A c \in CallIds :
        /\ (calls[c].pc = "awaiting" /\ calls'[c].how.by = "timer") =>
              /\ calls[c].timeout # None
              /\ calls'[c].pc = "returned"
              /\ calls'[c].task = "cancelled"
              /\ Len(results'[c]) = 1
              /\ results'[c][1].success = FALSE
              /\ results'[c][1].tool_name = calls[c].tool_name
              /\ results'[c][1].category \in ListedIn(registry, calls[c].tool_name)
              /\ results'[c][1].error # None
              /\ Contains(results'[c][1].error[1], "timed out")
              /\ Contains(results'[c][1].error[1],
                          " " \o str_float(calls[c].timeout[1]) \o " ")
        /\ calls[c].how.by = "timer" => results'[c] = results[c]
      ]_vars

C5_Witness ==
    \E c \in CallIds :
        /\ calls[c].how.by = "timer"
        /\ calls[c].task = "cancelled"
        /\ results[c][1].category = "crypto_evm"
        /\ results[c][1].error = Some("Tool execution timed out after 0.1 seconds")

(***************************************************************************)
(* C6.  Every execute_tool call that is suspended in its invocation        *)
(* eventually returns exactly one result.                                  *)
(* With timeout=None asyncio.wait_for sets no timer, so a tool that never  *)
(* completes keeps the call suspended for ever.                            *)
(***************************************************************************)
C6_ExecuteReturns ==
    \A c \in CallIds :
        (calls[c].pc = "awaiting") ~> (calls[c].pc = "returned" /\ Len(results[c]) = 1)

(***************************************************************************)
(* C7.  After any register_tool calls, get_tool(name) is the instance most *)
(* recently registered under name, and every category name was registered  *)
(* in lists it exactly once.                                               *)
(***************************************************************************)
C7_RegistryUniqueness ==
    \A n \in AllNames :
        regHist[n].count > 0 =>
            /\ get_tool(registry, n) = regHist[n].inst
            /\ \A c \in regHist[n].cats :
                  Occurrences(list_tools_in(registry, c), n) = 1

\* a name registered by initialize and registered again, directly, in the
\* same category
C7_Witness ==
    /\ hist.ran
    /\ regHist["get_token_price"].count = 2
    /\ regHist["get_token_price"].cats = {"crypto_data"}
    /\ regHist["get_token_price"].inst \in UserInstances

(***************************************************************************)
(* C8.  Every name in a category list has an entry in the name-to-instance *)
(* map.                                                                    *)
(***************************************************************************)
C8_ListedNamesRegistered ==
    \A c \in Categories :
        \A i \in 1..Len(registry.categories[c]) :
            registry.categories[c][i] \in DOMAIN registry.tools

\* lists filled by initialize and by a direct register_tool call of None
C8_Witness ==
    /\ hist.ran
    /\ registry.categories["crypto_evm"] # << >>
    /\ \E c \in Categories : "custom_tool" \in Range(registry.categories[c])
    /\ regHist["custom_tool"].inst = NoneInstance

(***************************************************************************)
(* C9.  Every registered name is in exactly one category list.             *)
(* register_tool never removes a name from the list of the category it was *)
(* registered in before, so a name registered again under another category *)
(* is in two lists.                                                        *)
(***************************************************************************)
C9_ExactlyOneCategory ==
    \A n \in Range(list_tools(registry)) :
        Cardinality(ListedIn(registry, n)) = 1

(***************************************************************************)
(* C10.  An initialize call on an initialized agent, whatever categories   *)
(* it is given, changes neither the registry nor the initialized flag.     *)
(* (Under Spec the steps that leave hist.ops unchanged are exactly the     *)
(* initialize calls on an initialized agent.)                              *)
(***************************************************************************)
C10_InitializeIdempotent ==
    [][(initialized /\ hist'.ops = hist.ops) =>
            (registry' = registry /\ initialized' = initialized)]_vars

C10_Witness ==
    /\ initialized
    /\ hist.noop
    /\ get_tool_count(registry) > 0

(***************************************************************************)
(* C11.  When the invocation returned, the call's result follows the       *)
(* normalisation rule.  For an object with an `output` attribute: success  *)
(* is true exactly when the object has no `error` attribute or its error   *)
(* is None or the empty string; data is the output; error is the error     *)
(* attribute (None when there is none).  For any other object: success is  *)
(* true and data is the object.                                            *)
(* The code tests `result.error is None`, so an object whose error is the  *)
(* empty string is reported with success false.                            *)
(***************************************************************************)
C11_ResultNormalization ==
    \A c \in CallIds :
        calls[c].how.by = "return" =>
            LET obj == calls[c].how.obj
                r == results[c][Len(results[c])]
            IN  IF obj.has_output
                THEN /\ r.success =
                          (~obj.has_error \/ obj.error \in {None, Some("")})
                     /\ r.data = obj.output
                     /\ r.error = (IF obj.has_error THEN obj.error ELSE None)
                ELSE /\ r.success = TRUE
                     /\ r.data = obj.value

(***************************************************************************)
(* C12.  Every result an execute_tool call has handed back, on whichever   *)
(* path, has an error (a value other than None) exactly when its success   *)
(* is false.                                                               *)
(***************************************************************************)
C12_ErrorIffFailure ==
    \A c \in CallIds :
        \A i \in 1..Len(results[c]) :
            (results[c][i].error # None) <=> (results[c][i].success = FALSE)

\* a structured return value that carries an error
C12_Witness ==
    \E c \in CallIds :
        /\ calls[c].how.by = "return"
        /\ calls[c].how.obj.has_error
        /\ calls[c].how.obj.error = Some("bad input")
        /\ results[c][1].success = FALSE
        /\ results[c][1].error = Some("bad input")

(***************************************************************************)
(* C15.  A health_check call reports status "healthy" exactly when the     *)
(* agent is initialized, reports as total_tools the number of registered   *)
(* names, and changes neither the registry nor the initialized flag.       *)
(* (Under HealthSpec the steps that change `health` are health_check       *)
(* calls.)                                                                 *)
(***************************************************************************)
C15_HealthCheck ==
    [][health' # health =>
          /\ health' # None
          /\ (health'[1].status = "healthy") <=> initialized
          /\ health'[1].initialized = initialized
          /\ health'[1].total_tools = Cardinality(DOMAIN registry.tools)
          /\ registry' = registry
          /\ initialized' = initialized
      ]_vars

\* a report made after an initialize that was left part-way: tools
\* registered, not healthy
C15_Witness ==
    /\ hist.raised
    /\ health # None
    /\ health[1].status = "not_initialized"
    /\ health[1].total_tools > 0
    /\ health[1].total_tools = get_tool_count(registry)

(***************************************************************************)
(* C13.  When execute_batch has returned, in sequential or in parallel     *)
(* mode, the returned list is as long as the command list and its slot i   *)
(* is the result that the execute_tool call of command i returned, for     *)
(* command i's tool name, whatever the order in which the calls ended and  *)
(* whichever of them failed.                                               *)
(***************************************************************************)
C13_BatchOrder ==
    batch.pc = "returned" =>
        /\ Len(batch.out) = Len(batch.commands)
        /\ \A i \in 1..Len(batch.commands) :
              /\ batch.delivered[i] # << >>
              /\ batch.out[i] = batch.delivered[i][1]
              /\ batch.out[i].tool_name = batch.commands[i].tool_name
              /\ (batch.frames[i].how.by \in {"raise", "timer"}
                    => batch.out[i].success = FALSE)
              /\ (batch.frames[i].how.by = "return"
                    => batch.out[i].success = ~batch.frames[i].how.obj.has_error)

\* a parallel batch whose second command ended first, by a timeout, and
\* whose first command succeeded afterwards
C13_Witness ==
    /\ batch.pc = "returned"
    /\ batch.parallel
    /\ Len(batch.commands) = 2
    /\ batch.order = <<2, 1>>
    /\ batch.frames[2].how.by = "timer"
    /\ batch.out[2].success = FALSE
    /\ batch.out[1].success = TRUE
    /\ batch.out[1].tool_name # batch.out[2].tool_name

(***************************************************************************)
(* C14.  In a parallel execute_batch: no execute_tool call is left by an   *)
(* exception; a step in which one command's invocation ends (by a return,  *)
(* a failure or its timeout) leaves every other command's call and result  *)
(* as they were, and when it ends by its timeout the invocation cancelled  *)
(* is its own and the message names its own timeout; and every slot of the *)
(* returned list is a ToolExecutionResult, the one its own call returned.  *)
(* Tool failures are exceptions under Exception.                           *)
(***************************************************************************)
C14_ParallelIsolation ==
    [][(batch'.pc # "idle" /\ batch'.parallel) =>
          /\ \A i \in 1..Len(batch'.frames) : batch'.frames[i].pc # "raised"
          /\ \A i \in 1..Len(batch.frames) :
                (batch.frames[i].task = "running"
                    /\ batch'.frames[i].task # "running") =>
                    /\ \A j \in 1..Len(batch.frames) \ {i} :
                          /\ batch'.frames[j] = batch.frames[j]
                          /\ batch'.delivered[j] = batch.delivered[j]
                    /\ batch'.frames[i].how.by = "timer" =>
                          /\ batch'.frames[i].task = "cancelled"
                          /\ cmd_timeout(batch.commands[i]) # None
                          /\ batch'.delivered[i][1].error =
                                Some("Tool execution timed out after "
                                        \o str_float(cmd_timeout(batch.commands[i])[1])
                                        \o " seconds")
          /\ batch'.pc = "returned" =>
                \A i \in 1..Len(batch'.commands) :
                    /\ DOMAIN batch'.out[i] =
                          {"success", "tool_name", "category", "data", "error",
                           "metadata"}
                    /\ batch'.out[i] = batch'.delivered[i][1]
      ]_vars

\* a parallel batch in which one command timed out while the other was
\* still running, and the other then returned its value
C14_Witness ==
    /\ batch.pc = "returned"
    /\ batch.parallel
    /\ Len(batch.commands) = 2
    /\ batch.order = <<2, 1>>
    /\ batch.frames[2].how.by = "timer"
    /\ batch.frames[1].how.by = "return"
    /\ batch.out[1].data = Some("42")
    /\ batch.out[2].error = Some("Tool execution timed out after 0.1 seconds")

\* `text` occurs in s when letter case is ignored; lower and upper are the
\* text in lower and in upper case.
ContainsIgnoringCase(s, lower, upper) ==
    \E k \in 1..(Len(s) - Len(lower) + 1) :
        \A j \in 1..Len(lower) :
            SubSeq(s, k + j - 1, k + j - 1)
                \in {SubSeq(lower, j, j), SubSeq(upper, j, j)}

(***************************************************************************)
(* C16, as claimed.  A routed action that is in the static table has the   *)
(* table's tool; any other action has evm_balance if the action string     *)
(* contains "balance", and get_token_price otherwise.                      *)
(* The code looks for the keyword in action.lower(), so an action such as  *)
(* "My_Balance", which does not contain "balance", is routed to            *)
(* evm_balance.                                                            *)
(***************************************************************************)
C16_RouterAsClaimed ==
    sends.pc = "routed" =>
        sends.tool_name =
            IF sends.intent.action \in DOMAIN tool_mappings
            THEN tool_mappings[sends.intent.action]
            ELSE IF Contains(sends.intent.action, "balance") THEN "evm_balance"
            ELSE "get_token_price"

(***************************************************************************)
(* C16, amended.  The router is a total function of the action string: a   *)
(* routed action that is in the static table has the table's tool; any     *)
(* other action has evm_balance if it contains "balance" in any letter     *)
(* case, and get_token_price otherwise, whether or not it contains         *)
(* "price".                                                                *)
(***************************************************************************)
C16_Router ==
    sends.pc = "routed" =>
        sends.tool_name =
            IF sends.intent.action \in DOMAIN tool_mappings
            THEN tool_mappings[sends.intent.action]
            ELSE IF ContainsIgnoringCase(sends.intent.action, "balance", "BALANCE")
                 THEN "evm_balance"
                 ELSE "get_token_price"

\* an action outside the table that has the keyword in mixed case
C16_Witness ==
    /\ sends.pc = "routed"
    /\ sends.intent.action = "My_Balance"
    /\ sends.intent.action \notin DOMAIN tool_mappings
    /\ sends.tool_name = "evm_balance"

\* The trading pair the claim gives for each bare token of the inputs.
C17_Pairs ==
    [ETH |-> "ETH-USDC", eth |-> "ETH-USDC", ethereum |-> "ETH-USDC",
     btc |-> "BTC-USDT", sol |-> "SOL-USDC"]

(***************************************************************************)
(* C17.  For an intent routed to get_token_price: when the parameters have *)
(* a bare token under "token" and no "symbol", or under "symbol" without a *)
(* '-', the adapted parameters have under "symbol" the trading pair of     *)
(* that token (ETH and ETHEREUM give ETH-USDC, BTC and BITCOIN give        *)
(* BTC-USDT, any other token X gives X-USDC, in upper case); and the       *)
(* parameters {token: "ETH"} are adapted to exactly {symbol: "ETH-USDC"}.  *)
(***************************************************************************)
C17_TradingPair ==
    (sends.pc = "routed" /\ sends.tool_name = "get_token_price") =>
        LET given == sends.intent.parameters
            adapted == sends.tool_params
        IN  /\ ("token" \in DOMAIN given /\ "symbol" \notin DOMAIN given) =>
                  /\ "symbol" \in DOMAIN adapted
                  /\ adapted["symbol"] = C17_Pairs[given["token"]]
                  /\ "token" \notin DOMAIN adapted
            /\ ("symbol" \in DOMAIN given /\ given["symbol"] \in DOMAIN C17_Pairs) =>
                  adapted["symbol"] = C17_Pairs[given["symbol"]]
            /\ ("symbol" \in DOMAIN given /\ given["symbol"] = "ETH/USDT") =>
                  adapted["symbol"] = "ETH/USDT-USDC"
            /\ given = [token |-> "ETH"] => adapted = [symbol |-> "ETH-USDC"]

\* the claim's example, sent with the action of the same name
C17_Witness ==
    /\ sends.pc = "routed"
    /\ sends.intent = [action |-> "get_token_price", parameters |-> [token |-> "ETH"]]
    /\ sends.tool_name = "get_token_price"
    /\ sends.tool_params = [symbol |-> "ETH-USDC"]

(***************************************************************************)
(* C18.  For every intent routed to get_token_price, the adapted           *)
(* parameters have none of the keys token, address, vs_currency and        *)
(* wallet_address.                                                         *)
(* The code pops "token" only in the branch taken when there is no         *)
(* "symbol"; parameters that have both keep "token".                       *)
(***************************************************************************)
C18_NoForeignKeys ==
    (sends.pc = "routed" /\ sends.tool_name = "get_token_price") =>
        DOMAIN sends.tool_params
            \cap {"token", "address", "vs_currency", "wallet_address"} = {}

EndsWith(message, text) ==
    /\ Len(message) >= Len(text)
    /\ SubSeq(message, Len(message) - Len(text) + 1, Len(message)) = text

\* The tool layer is connected: the agent module was imported and the
\* latest SpoonOSIntegration.initialize call came to its end.
Connected == integration.available /\ hist.ran /\ ~hist.raised

(***************************************************************************)
(* C19.  A send_intent call made while the tool layer is not connected     *)
(* (the agent module could not be imported, initialize was never called,   *)
(* or the latest initialize failed) returns at once a response with        *)
(* success true, whose output ends with the fallback disclaimer and which  *)
(* has a follow-up question; no execute_tool call is made.                 *)
(***************************************************************************)
C19_FallbackWhenNotConnected ==
    [][(sends.pc = "idle" /\ sends'.pc # "idle" /\ ~Connected) =>
          /\ sends'.pc = "returned"
          /\ sends'.response # None
          /\ sends'.response[1].success = TRUE
          /\ EndsWith(sends'.response[1].output,
                "\n\n:warning: Note: This is a fallback response. Real SpoonOS integration unavailable.")
          /\ sends'.response[1].follow_up_questions # None
          /\ Len(sends'.response[1].follow_up_questions[1]) >= 1
          /\ calls' = calls
          /\ results' = results
      ]_vars

\* a fallback given after an initialize that failed part-way, the agent
\* object being there with tools registered
C19_Witness ==
    /\ integration.agent
    /\ hist.raised
    /\ get_tool_count(registry) > 0
    /\ sends.pc = "returned"
    /\ sends.intent = [action |-> "check_balance", parameters |-> [address |-> "0xabc"]]
    /\ calls["call"].pc = "idle"
    /\ sends.response[1].success
    /\ Contains(sends.response[1].output, "Mock Balance: 2.5 ETH (~$6,250) for address 0xabc")

(***************************************************************************)
(* C20.  When a send_intent call made on a connected tool layer has        *)
(* returned and its tool invocation failed (the tool was not found, timed  *)
(* out or raised), the response has success true and carries the mock      *)
(* payload with the fallback disclaimer.                                   *)
(* The code answers a failed result through _format_spoonos_result, with   *)
(* success false and the error text; _fallback_response is called only     *)
(* when the layer is not connected.                                        *)
(***************************************************************************)
C20_FallbackOnToolFailure ==
    (/\ Connected
     /\ sends.pc = "returned"
     /\ calls["call"].pc = "returned"
     /\ results["call"] # << >>
     /\ results["call"][Len(results["call"])].success = FALSE
     /\ \/ calls["call"].how.by \in {"raise", "timer"}
        \/ ~HasKey(registry, calls["call"].tool_name)) =>
        /\ sends.response[1].success = TRUE
        /\ Contains(sends.response[1].output, "Mock")
        /\ EndsWith(sends.response[1].output,
              "\n\n:warning: Note: This is a fallback response. Real SpoonOS integration unavailable.")

(***************************************************************************)
(* C23.  After an initialize call made with no category list (None) whose  *)
(* providers all work, the agent is initialized with the tools of all five *)
(* categories registered.                                                  *)
(* The code takes `tool_categories or [ToolCategory.CRYPTO_DATA]`: with    *)
(* None (and with an empty list) only crypto_data is registered, against   *)
(* the method's docstring, "If None, initializes all".                     *)
(***************************************************************************)
C23_InitializeNoneAll ==
    (hist.ran /\ hist.given = None /\ hist.faulty = {}) =>
        /\ initialized
        /\ \A c \in Categories :
              Range(CategoryTools(c)) \subseteq DOMAIN registry.tools

(***************************************************************************)
(* C26.  A returned result carries the timed-out message only when the     *)
(* call was ended by its timer; a call ended by an exception of the tool,  *)
(* of class asyncio.TimeoutError included, returns the tool-raised failure *)
(* message made of the tool's text.                                        *)
(* The code cannot tell the two apart: `except asyncio.TimeoutError` also  *)
(* catches a TimeoutError that the tool raised by itself before the bound  *)
(* elapsed (or with no bound at all, timeout=None).                        *)
(***************************************************************************)
C26_TimeoutOnlyWhenElapsed ==
    \A c \in CallIds :
        (calls[c].pc = "returned" /\ Len(results[c]) = 1) =>
            /\ (/\ results[c][1].error # None
                /\ Contains(results[c][1].error[1], "timed out"))
                   => calls[c].how.by = "timer"
            /\ calls[c].how.by = "raise"
                   => results[c][1].error = Some(FailedError(calls[c].how.text))

(***************************************************************************)
(* C30.  Every health_check report with initialized false has total_tools  *)
(* zero.                                                                   *)
(* An initialize call that is left by a provider's exception (C1) keeps    *)
(* the tools registered before the failure while _initialized stays False; *)
(* and agent.registry is a public attribute, so tools registered on it     *)
(* before initialize are counted too.                                      *)
(***************************************************************************)
C30_NotInitializedEmpty ==
    (health # None /\ ~health[1].initialized) => health[1].total_tools = 0

(***************************************************************************)
(* C27.  list_tools() holds every registered name at the rank of its first *)
(* registration among all names, and list_tools(category) holds every name *)
(* registered in the category at the rank of its first registration there; *)
(* both lists hold nothing else.  Since the ranks are fixed by the first    *)
(* registration, registering a name again leaves its place in both lists.  *)
(***************************************************************************)
C27_ListingOrder ==
    /\ Len(list_tools(registry)) =
           Cardinality({n \in AllNames : regHist[n].count > 0})
    /\ \A c \in Categories :
           Len(list_tools_in(registry, c)) =
               Cardinality({n \in AllNames : c \in regHist[n].cats})
    /\ \A n \in AllNames :
           regHist[n].count > 0 =>
               /\ regHist[n].rank \in 1..Len(list_tools(registry))
               /\ list_tools(registry)[regHist[n].rank] = n
               /\ \A c \in regHist[n].cats :
                     /\ regHist[n].ranks[c] \in 1..Len(list_tools_in(registry, c))
                     /\ list_tools_in(registry, c)[regHist[n].ranks[c]] = n

\* get_token_price, first registered by initialize, registered again by a
\* direct call after the other names: still first in both lists
C27_Witness ==
    /\ hist.ran
    /\ regHist["get_token_price"].count = 2
    /\ regHist["get_token_price"].inst \in UserInstances
    /\ regHist["get_token_price"].cat = "crypto_data"
    /\ list_tools(registry)[1] = "get_token_price"
    /\ list_tools_in(registry, "crypto_data")[1] = "get_token_price"
    /\ Len(list_tools(registry)) > Len(list_tools_in(registry, "crypto_data"))
    /\ Len(list_tools_in(registry, "crypto_data")) > 1

(***************************************************************************)
(* C25.  For every intent routed to evm_balance, the adapted parameters    *)
(* have none of the keys wallet_address, token and symbol; "address" is    *)
(* the caller's wallet_address when one was given (an address given too is *)
(* replaced), else the caller's address if any; and every other key is as  *)
(* the caller gave it.                                                     *)
(***************************************************************************)
C25_BalanceParameters ==
    (sends.pc = "routed" /\ sends.tool_name = "evm_balance") =>
        LET given == sends.intent.parameters
            adapted == sends.tool_params
            others == DOMAIN given \ {"wallet_address", "token", "symbol", "address"}
        IN  /\ DOMAIN adapted \cap {"wallet_address", "token", "symbol"} = {}
            /\ "wallet_address" \in DOMAIN given =>
                  /\ "address" \in DOMAIN adapted
                  /\ adapted["address"] = given["wallet_address"]
            /\ "wallet_address" \notin DOMAIN given =>
                  /\ "address" \in DOMAIN adapted <=> "address" \in DOMAIN given
                  /\ "address" \in DOMAIN given =>
                        adapted["address"] = given["address"]
            /\ DOMAIN adapted \ {"address"} = others
            /\ \A k \in others : adapted[k] = given[k]

\* a balance intent, routed by the keyword rule, that gives both addresses
\* and a token
C25_Witness ==
    /\ sends.pc = "routed"
    /\ sends.intent.action = "wallet_balance_lookup"
    /\ sends.tool_name = "evm_balance"
    /\ sends.intent.parameters =
           [token |-> "ETH", address |-> "0xabc", wallet_address |-> "0xdef",
            vs_currency |-> "usd"]
    /\ sends.tool_params = [address |-> "0xdef", vs_currency |-> "usd"]

C29_RoutableNames ==
    {map_intent_to_tool(action) :
        action \in DOMAIN tool_mappings \cup SendActions \cup RouteActions}

(***************************************************************************)
(* C29.  While the tool layer is connected after an initialize in which    *)
(* all five categories' providers worked, every tool name the router       *)
(* returns, from its table or from its keyword rule, is registered with an *)
(* instance that execute_tool accepts; and a send_intent call that has     *)
(* gone through execute_tool was routed to a registered name and got no    *)
(* not-found result.                                                       *)
(***************************************************************************)
C29_RoutedNamesRegistered ==
    (Connected /\ hist.faulty = {}) =>
        /\ \A n \in C29_RoutableNames :
              /\ HasKey(registry, n)
              /\ Truthy(get_tool(registry, n))
        /\ (sends.tool_name # "" /\ sends.pc \in {"awaiting", "returned"}) =>
              /\ HasKey(registry, sends.tool_name)
              /\ \A i \in 1..Len(results["call"]) :
                    \/ results["call"][i].error = None
                    \/ ~Contains(results["call"][i].error[1], "not found")

\* an action outside the table, routed by the keyword rule's default, whose
\* tool has returned
C29_Witness ==
    /\ Connected
    /\ hist.faulty = {}
    /\ sends.pc = "returned"
    /\ sends.given.action = "general_web3"
    /\ sends.tool_name = "get_token_price"
    /\ calls["call"].how.by = "return"
    /\ results["call"][1].success

(***************************************************************************)
(* C21.  When the tool invoked for a send_intent call raised an exception  *)
(* with text m, the output of the response that send_intent returns does   *)
(* not contain m.                                                          *)
(* The code puts the text through: execute_tool returns the error "Tool    *)
(* execution failed: m" and _format_spoonos_result answers with            *)
(* ":x: " + result.error; send_intent's own handler answers                *)
(* "Tool execution failed: " + str(e), and process_query's handler returns *)
(* "I encountered an issue processing your request: " + str(e).            *)
(***************************************************************************)
C21_NoRawFailureText ==
    (/\ sends.pc = "returned"
     /\ calls["call"].pc = "returned"
     /\ calls["call"].how.by = "raise") =>
        ~Contains(sends.response[1].output, calls["call"].how.text)

\* The log of session s: empty while the session has no memory.
LogOf(sess, s) == IF s \in DOMAIN sess THEN sess[s] ELSE << >>

IsPrefix(a, b) == Len(a) <= Len(b) /\ SubSeq(b, 1, Len(a)) = a

\* The step in which process_query call id returns by `return response`.
ReturnsNormally(id) ==
    queries[id].pc # "returned" /\ queries'[id].pc = "returned" /\ queries'[id].normal

(***************************************************************************)
(* C22.  In every step of overlapping process_query calls: every session   *)
(* keeps its memory and its log stays a prefix of the new log; a step in   *)
(* which a call for session s returns a normal response appends exactly    *)
(* the entry (the call's input, the response returned) to the log of s and *)
(* leaves every other session's log as it was; and any other step leaves   *)
(* every log as it was.                                                    *)
(***************************************************************************)
C22_SessionLogAppendOnly ==
    [][/\ \A s \in DOMAIN sessions :
             /\ s \in DOMAIN sessions'
             /\ IsPrefix(sessions[s], sessions'[s])
       /\ \A id \in QueryIds :
             ReturnsNormally(id) =>
                 /\ sessions'[queries[id].session_id] =
                        Append(LogOf(sessions, queries[id].session_id),
                               [input |-> queries[id].user_input,
                                output |-> queries'[id].response[1]])
                 /\ \A t \in SessionIds \ {queries[id].session_id} :
                        LogOf(sessions', t) = LogOf(sessions, t)
       /\ (\A id \in QueryIds : ~ReturnsNormally(id)) =>
             \A t \in SessionIds : LogOf(sessions', t) = LogOf(sessions, t)
      ]_vars

\* two calls for one session that overlapped: the one made second returned
\* first, and the log holds both entries in the order of the returns
C22_Witness ==
    /\ queries[1].pc = "returned" /\ queries[1].normal
    /\ queries[2].pc = "returned" /\ queries[2].normal
    /\ queries[1].session_id = "default"
    /\ queries[2].session_id = "default"
    /\ queries[1].user_input # queries[2].user_input
    /\ Len(sessions["default"]) = 2
    /\ sessions["default"][1] = [input |-> queries[2].user_input,
                                 output |-> queries[2].response[1]]
    /\ sessions["default"][2] = [input |-> queries[1].user_input,
                                 output |-> queries[1].response[1]]

\* The tool each query of the integration test is expected to run on
\* (test_integrated_workflow's expected_tool).
C24_ExpectedTool(user_input) ==
    CASE user_input = "What's the current price of ETH?" -> "get_token_price"
      [] user_input = "Check my wallet balance for address 0x742d35Cc6634C0532925a3b844Bc454e4438f44e"
            -> "evm_balance"
      [] user_input = "How much gas would it cost to swap 1 ETH for USDC?"
            -> "evm_swap_quote"
      [] OTHER -> "general_chat"

(***************************************************************************)
(* C24.  Whenever process_query has forwarded a Web3 query through the     *)
(* intent router (the ReAct agent being unavailable or having failed) and  *)
(* a tool was executed for it, that tool is the one matching the query:    *)
(* get_token_price for the price query, evm_balance for the wallet-balance *)
(* query, evm_swap_quote for the gas-cost query.                           *)
(* _fallback_to_current_approach builds Intent(action="general_web3") for  *)
(* every query; the router has no entry for it and no "balance" in it, so  *)
(* every query is executed on get_token_price.                             *)
(***************************************************************************)
C24_QueryOnMatchingTool ==
    \A id \in QueryIds :
        (queries[id].path = "fallback" /\ queries[id].call.pc # "idle") =>
            queries[id].call.tool_name = C24_ExpectedTool(queries[id].user_input)

====
